---- MODULE Spec2Model ----
(***************************************************************************)
(* Model of the Google Pay statement extractor of OnlyPDF-Dev-Claude.py:   *)
(* extract_gpay_transactions_from_pdf, categorize_transaction and          *)
(* process_pdf_data, driven by the PDF-mode sync of the dashboard.         *)
(*                                                                         *)
(* A document's text is a sequence of tokens.  Every token stands for a    *)
(* fixed piece of text (Render), so the regular expression of the          *)
(* extractor is evaluated token by token, while the string operations of   *)
(* the code (lower, replace, strip, split, re.sub, "in") are evaluated on  *)
(* the characters of the rendered text.  Strings are sequences of          *)
(* one-character strings.                                                  *)
(***************************************************************************)
EXTENDS Integers, Sequences, FiniteSets, TLC

(***************************************************************************)
(* Bounds of the model.                                                    *)
(***************************************************************************)
MaxDocs == 2
MaxSegs == 2
MaxRuns == 2

(***************************************************************************)
(* Strings.                                                                *)
(***************************************************************************)
Min(S) == CHOOSE x \in S : \A y \in S : x <= y
Max(S) == CHOOSE x \in S : \A y \in S : x >= y

\* the function f on 1..n as a list of values
Listed(f) == SubSeq(f, 1, Len(f))

UpperChars == <<"A","B","C","D","E","F","G","H","I","J","K","L","M",
                "N","O","P","Q","R","S","T","U","V","W","X","Y","Z">>
LowerChars == <<"a","b","c","d","e","f","g","h","i","j","k","l","m",
                "n","o","p","q","r","s","t","u","v","w","x","y","z">>

\* str.lower() on one character
LowerChar(c) ==
  IF \E k \in 1..26 : UpperChars[k] = c
  THEN LowerChars[CHOOSE k \in 1..26 : UpperChars[k] = c]
  ELSE c

\* str.lower()
Lower(s) == Listed([k \in 1..Len(s) |-> LowerChar(s[k])])

\* the characters the regular expression class \s and str.strip() treat as blank
IsSpaceChar(c) == c \in {" ", "\n", "\t"}

\* str.replace(' ', ''): only the space character is removed
RemoveSpaces(s) == SelectSeq(s, LAMBDA c : c # " ")

\* sub in s
Contains(s, sub) ==
  \E k \in 0..(Len(s) - Len(sub)) : SubSeq(s, k + 1, k + Len(sub)) = sub

\* str.strip()
Strip(s) ==
  LET Between(keep) == IF keep = {} THEN <<>> ELSE SubSeq(s, Min(keep), Max(keep))
  IN Between({k \in 1..Len(s) : ~IsSpaceChar(s[k])})

\* s.split(sep)[0]
SplitFirst(s, sep) ==
  LET Before(at) == IF at = {} THEN s ELSE SubSeq(s, 1, Min(at))
  IN Before({k \in 0..(Len(s) - Len(sep)) : SubSeq(s, k + 1, k + Len(sep)) = sep})

\* re.sub(r'\s+', ' ', s): every run of blanks becomes one space
CollapseSpaces(s) ==
  SelectSeq([k \in 1..Len(s) |->
               IF ~IsSpaceChar(s[k]) THEN s[k]
               ELSE IF k = 1 \/ ~IsSpaceChar(s[k - 1]) THEN " " ELSE ""],
            LAMBDA c : c # "")


(***************************************************************************)
(* Tokens of a statement text and the text each one stands for.  "Rs" is   *)
(* the one character of the rupee sign.                                    *)
(***************************************************************************)
DateTokens   == {"D1", "D2", "DX", "DB"}
MarkerTokens == {"PAIDTO", "RECV", "SELFTO", "PAIDTOX"}
BlankTokens  == {"WS"}
NumTokens    == {"0", "26", "5000", "111", "222"}
WordTokens   == {"Sudama", "Ravi", "X", "Google", "Pay", "Rewards", "Better",
                 "luck", "next", "time", "Self", "transfer", "Statement", "Bank",
                 "SudamaSupane", "1001AM"}

Render(t) ==
  CASE t = "D1" -> <<"0","1"," ","O","c","t",","," ","2","0","2","5">>
    [] t = "D2" -> <<"0","2"," ","O","c","t",","," ","2","0","2","5">>
    [] t = "DX" -> <<"0","1","O","c","t",",","2","0","2","5">>
    [] t = "DB" -> <<"3","1"," ","S","e","p",","," ","2","0","2","5">>
    [] t = "PAIDTOX" -> <<"P","a","i","d","t","o">>
    [] t = "PAIDBYX" -> <<"P","a","i","d","b","y">>
    [] t = "SudamaSupane" -> <<"S","u","d","a","m","a","S","u","p","a","n","e">>
    [] t = "1001AM" -> <<"1","0",":","0","1","A","M">>
    [] t = "PAIDTO" -> <<"P","a","i","d"," ","t","o">>
    [] t = "RECV" -> <<"R","e","c","e","i","v","e","d"," ","f","r","o","m">>
    [] t = "SELFTO" -> <<"S","e","l","f"," ","t","r","a","n","s","f","e","r"," ","t","o">>
    [] t = "PAIDBY" -> <<"P","a","i","d"," ","b","y">>
    [] t = "WS" -> <<" ">>
    [] t = "UPI" -> <<"U","P","I">>
    [] t = "UPIID" -> <<"U","P","I"," ","T","r","a","n","s","a","c","t","i","o","n"," ","I","D",":">>
    [] t = "UPIIDX" -> <<"U","P","I","T","r","a","n","s","a","c","t","i","o","n","I","D",":">>
    [] t = "RS" -> <<"Rs">>
    [] t = "0" -> <<"0">>
    [] t = "26" -> <<"2","6">>
    [] t = "5000" -> <<"5","0","0","0">>
    [] t = "111" -> <<"1","1","1">>
    [] t = "222" -> <<"2","2","2">>
    [] t = "COMMA" -> <<",">>
    [] t = "Sudama" -> <<"S","u","d","a","m","a">>
    [] t = "Ravi" -> <<"R","a","v","i">>
    [] t = "X" -> <<"X">>
    [] t = "Google" -> <<"G","o","o","g","l","e">>
    [] t = "Pay" -> <<"P","a","y">>
    [] t = "Rewards" -> <<"R","e","w","a","r","d","s">>
    [] t = "Better" -> <<"B","e","t","t","e","r">>
    [] t = "luck" -> <<"l","u","c","k">>
    [] t = "next" -> <<"n","e","x","t">>
    [] t = "time" -> <<"t","i","m","e">>
    [] t = "Self" -> <<"S","e","l","f">>
    [] t = "transfer" -> <<"t","r","a","n","s","f","e","r">>
    [] t = "Statement" -> <<"S","t","a","t","e","m","e","n","t">>
    [] t = "Bank" -> <<"C","a","n","a","r","a","B","a","n","k","7","1","9","1">>

\* the text of the tokens text[from..to]
RenderSpan(text, from, to) ==
  LET F[k \in (from - 1)..to] ==
        IF k < from THEN <<>> ELSE F[k - 1] \o Render(text[k])
  IN IF to < from THEN <<>> ELSE F[to]

(***************************************************************************)
(* The regular expression of extract_gpay_transactions_from_pdf, matched   *)
(* with DOTALL and IGNORECASE.  Its pieces, in order:                      *)
(*   1. the date            \d{1,2} \s* [A-Za-z]{3} ,? \s* \d{4}           *)
(*   2. anything, lazy                                                     *)
(*   3. the type            Paid\s*to | Received\s*from | Self\s*transfer\s*to *)
(*   4. blanks \s+ and the description, anything, lazy                     *)
(*   5. the terminator      \s+UPI | \s+Rs                                 *)
(*   6. anything, lazy, and the amount   Rs \s* [\d,]+ \.? \d*             *)
(*   7. anything, lazy, and the identifier   UPI Transaction ID: \s* \d+   *)
(*   8. optionally: anything, lazy, Paid\s*(by|to), \s*, and the bank,     *)
(*      anything, lazy, at the end of the pattern.                         *)
(* A backtracking matcher takes, from left to right, the first position of *)
(* each piece from which the rest of the pattern can still be matched.     *)
(***************************************************************************)
Tok(text, k) == IF k \in 1..Len(text) THEN text[k] ELSE "EOT"

\* piece 1
IsDate(text, k) == Tok(text, k) \in DateTokens

\* piece 3 and the blanks of piece 4
IsMarker(text, k) ==
  Tok(text, k) \in MarkerTokens /\ Tok(text, k + 1) \in BlankTokens

\* piece 5: a blank and then text that starts with UPI, or the rupee sign
IsTerminator(text, k) ==
  Tok(text, k) \in BlankTokens /\ Tok(text, k + 1) \in {"UPI", "UPIID", "UPIIDX", "RS"}

\* piece 6: the position of the token that starts with the number after the rupee
\* sign at k (a number, a comma, the day of a date or the hour of a time), or 0
AmountAt(text, k) ==
  IF Tok(text, k) # "RS" THEN 0
  ELSE IF Tok(text, k + 1) \in NumTokens \cup DateTokens \cup {"COMMA", "1001AM"} THEN k + 1
  ELSE IF Tok(text, k + 1) \in BlankTokens
          /\ Tok(text, k + 2) \in NumTokens \cup DateTokens \cup {"COMMA", "1001AM"} THEN k + 2
  ELSE 0

\* piece 7: the position of the token that starts with the digits after the label
\* at k (a number, the day of a date or the hour of a time), or 0
IdAt(text, k) ==
  IF Tok(text, k) # "UPIID" THEN 0
  ELSE IF Tok(text, k + 1) \in NumTokens \cup DateTokens \cup {"1001AM"} THEN k + 1
  ELSE IF Tok(text, k + 1) \in BlankTokens
          /\ Tok(text, k + 2) \in NumTokens \cup DateTokens \cup {"1001AM"} THEN k + 2
  ELSE 0

\* the positions of the text where each piece matches and the rest of the
\* pattern can be matched after it
Ids(text) == {u \in 1..Len(text) : IdAt(text, u) # 0}
Amounts(text) ==
  LET Before(ids) ==
        {a \in 1..Len(text) :
           AmountAt(text, a) # 0 /\ \E u \in ids : u > AmountAt(text, a)}
  IN Before(Ids(text))
Terminators(text) ==
  LET Before(amounts) ==
        {t \in 1..Len(text) : IsTerminator(text, t) /\ \E a \in amounts : a >= t + 2}
  IN Before(Amounts(text))
Markers(text) ==
  LET Before(terminators) ==
        {j \in 1..Len(text) : IsMarker(text, j) /\ \E t \in terminators : t >= j + 2}
  IN Before(Terminators(text))
Dates(text) ==
  LET Before(markers) ==
        {i \in 1..Len(text) : IsDate(text, i) /\ \E j \in markers : j > i}
  IN Before(Markers(text))

\* the same positions from p on
IdsFrom(text, p) == {u \in Ids(text) : u >= p}
AmountsFrom(text, p) == {a \in Amounts(text) : a >= p}
TerminatorsFrom(text, p) == {t \in Terminators(text) : t >= p}
MarkersFrom(text, p) == {j \in Markers(text) : j >= p}
DatesFrom(text, p) == {i \in Dates(text) : i >= p}

\* piece 8: where the match ends when the digits of the
\* identifier are at u.  The group is tried first and its lazy bank is empty.
TailEnd(text, u) ==
  LET After(paid) ==
        IF paid = {} THEN u
        ELSE IF Tok(text, Min(paid) + 1) \in BlankTokens THEN Min(paid) + 1
        ELSE Min(paid)
  IN After({p \in (u + 1)..Len(text) :
              Tok(text, p) \in {"PAIDBY", "PAIDTO", "PAIDBYX", "PAIDTOX"}})

\* the leftmost match at or after position p (DatesFrom(text, p) is not empty)
MatchFrom(text, p) ==
  LET AtId(i, j, t, n, u) ==
        [date |-> i, type |-> j, descFrom |-> j + 2, descTo |-> t - 1,
         amount |-> n, id |-> u, bank |-> <<>>, end |-> TailEnd(text, u)]
      AtAmount(i, j, t, n) == AtId(i, j, t, n, IdAt(text, Min(IdsFrom(text, n + 1))))
      AtTerminator(i, j, t) ==
        AtAmount(i, j, t, AmountAt(text, Min(AmountsFrom(text, t + 2))))
      AtMarker(i, j) == AtTerminator(i, j, Min(TerminatorsFrom(text, j + 2)))
      AtDate(i) == AtMarker(i, Min(MarkersFrom(text, i + 1)))
  IN AtDate(Min(DatesFrom(text, p)))

\* re.findall(pattern, all_text, re.DOTALL | re.IGNORECASE)
RECURSIVE FindAllFrom(_, _)
FindAllFrom(text, p) ==
  LET Then(m) == <<m>> \o FindAllFrom(text, m.end + 1)
  IN IF DatesFrom(text, p) = {} THEN <<>> ELSE Then(MatchFrom(text, p))

FindAll(text) == FindAllFrom(text, 1)


(***************************************************************************)
(* The fields of one match (lines 56-97 of the extractor).                 *)
(***************************************************************************)
DigitChars == <<"0","1","2","3","4","5","6","7","8","9">>
IsDigit(c) == \E k \in 1..10 : DigitChars[k] = c
DigitVal(c) == (CHOOSE k \in 1..10 : DigitChars[k] = c) - 1
IsLetter(c) == \E k \in 1..26 : UpperChars[k] = c \/ LowerChars[k] = c

\* the longest prefix of s made of digits (and commas when commas is TRUE)
LeadingNumber(s, commas) ==
  LET Before(stop) == IF stop = {} THEN s ELSE SubSeq(s, 1, Min(stop) - 1)
  IN Before({k \in 1..Len(s) : ~(IsDigit(s[k]) \/ (commas /\ s[k] = ","))})

\* int(s) for a string of digits
RECURSIVE DecimalValue(_)
DecimalValue(s) ==
  IF s = <<>> THEN 0
  ELSE 10 * DecimalValue(SubSeq(s, 1, Len(s) - 1)) + DigitVal(s[Len(s)])

\* float(amount_str.replace(',', '').strip()); -1 stands for ValueError
ParseAmount(amount_str) ==
  LET Float(amount_clean) ==
        IF amount_clean = <<>>
           \/ \E k \in 1..Len(amount_clean) : ~IsDigit(amount_clean[k])
        THEN -1
        ELSE DecimalValue(amount_clean)
  IN Float(Strip(SelectSeq(amount_str, LAMBDA c : c # ",")))

\* s.split(' ') of a string whose blanks are single spaces
RECURSIVE SplitWords(_)
SplitWords(s) ==
  LET Cut(spaces) ==
        IF spaces = {} THEN <<s>>
        ELSE <<SubSeq(s, 1, Min(spaces) - 1)>>
               \o SplitWords(SubSeq(s, Min(spaces) + 1, Len(s)))
  IN Cut({k \in 1..Len(s) : s[k] = " "})

MonthNames == << <<"j","a","n">>, <<"f","e","b">>, <<"m","a","r">>, <<"a","p","r">>,
                 <<"m","a","y">>, <<"j","u","n">>, <<"j","u","l">>, <<"a","u","g">>,
                 <<"s","e","p">>, <<"o","c","t">>, <<"n","o","v">>, <<"d","e","c">> >>
DaysInMonth(y, m) ==
  IF m = 2 THEN (IF y % 4 = 0 /\ (y % 100 # 0 \/ y % 400 = 0) THEN 29 ELSE 28)
  ELSE IF m \in {4, 6, 9, 11} THEN 30 ELSE 31

\* datetime.strptime(date_clean, '%d %b %Y') as the number yyyymmdd; 0 stands
\* for ValueError
Strptime(date_clean) ==
  LET AllDigits(x) == \A k \in 1..Len(x) : IsDigit(x[k])
      Date(d, m, y) ==
        IF y >= 1 /\ d >= 1 /\ d <= DaysInMonth(y, m)
        THEN y * 10000 + m * 100 + d ELSE 0
      Parse(w) ==
        IF Len(w) # 3 THEN 0
        ELSE IF ~(Len(w[1]) \in {1, 2} /\ AllDigits(w[1])) THEN 0
        ELSE IF ~(\E m \in 1..12 : MonthNames[m] = Lower(w[2])) THEN 0
        ELSE IF ~(Len(w[3]) = 4 /\ AllDigits(w[3])) THEN 0
        ELSE Date(DecimalValue(w[1]),
                  CHOOSE m \in 1..12 : MonthNames[m] = Lower(w[2]),
                  DecimalValue(w[3]))
  IN Parse(SplitWords(date_clean))

\* lines 62-67: re.sub(r'[^\d\w]', ' ', date_str).strip(), blanks collapsed, strptime
ParseDate(date_str) ==
  Strptime(CollapseSpaces(Strip(
    [k \in 1..Len(date_str) |->
       IF IsDigit(date_str[k]) \/ IsLetter(date_str[k]) \/ date_str[k] = "_"
       THEN date_str[k] ELSE " "])))

\* lines 74-76
CleanDescription(description_raw) ==
  CollapseSpaces(Strip(SplitFirst(Strip(description_raw),
      <<"U","P","I"," ","T","r","a","n","s","a","c","t","i","o","n">>)))

\* line 81
skip_keywords ==
  << <<"g","o","o","g","l","e"," ","p","a","y"," ","r","e","w","a","r","d","s">>,
     <<"g","o","o","g","l","e","p","a","y","r","e","w","a","r","d","s">>,
     <<"b","e","t","t","e","r"," ","l","u","c","k"," ","n","e","x","t"," ","t","i","m","e">> >>

\* line 82 with only the keywords of line 81 that contain blanks
IsSkippedSpacedOnly(description) ==
  \E k \in {1, 3} :
     Contains(RemoveSpaces(Lower(description)), skip_keywords[k])

\* line 82
IsSkipped(description) ==
  \E k \in 1..Len(skip_keywords) :
     Contains(RemoveSpaces(Lower(description)), skip_keywords[k])

\* lines 58-59 with the check made on the description alone
IsSelfTransferInDescription(type_str, description_raw) ==
  Contains(RemoveSpaces(Lower(description_raw)),
           <<"s","e","l","f","t","r","a","n","s","f","e","r">>)

\* lines 58-59 with the check made on the type marker alone
IsSelfTransferInMarker(type_str, description_raw) ==
  Contains(RemoveSpaces(Lower(type_str)),
           <<"s","e","l","f","t","r","a","n","s","f","e","r">>)

\* lines 58-59
IsSelfTransfer(type_str, description_raw) ==
  Contains(RemoveSpaces(Lower(type_str \o <<" ">> \o description_raw)),
           <<"s","e","l","f","t","r","a","n","s","f","e","r">>)

\* lines 85-86
TransactionType(type_str) ==
  IF Contains(Lower(type_str), <<"r","e","c","e","i","v","e","d">>)
  THEN "Received" ELSE "Sent"

\* lines 71-72 with < in the place of <=
RejectNegativeAmount(amount) == amount < 0

\* lines 71-72
RejectAmount(amount) == amount <= 0

\* line 88
BankOf(bank_raw) ==
  IF bank_raw # <<>> THEN Strip(bank_raw) ELSE <<"U","n","k","n","o","w","n">>

\* lines 55-100: the records (none or one) that the match m of text appends to
\* transactions.  At records where in the text each field was read.
RecordsOfMatch(text, m) ==
  LET Record(type_str, date, amount, description, trans_id, bank_raw) ==
        IF date = 0 THEN <<>>
        ELSE IF RejectAmount(amount) THEN <<>>
        ELSE IF Len(description) < 2 THEN <<>>
        ELSE IF IsSkipped(description) THEN <<>>
        ELSE << [Date |-> date, Description |-> description, Amount |-> amount,
                 Type |-> TransactionType(type_str), TransactionID |-> trans_id,
                 Bank |-> BankOf(bank_raw),
                 At |-> [date |-> m.date, type |-> m.type, amount |-> m.amount,
                         id |-> m.id]] >>
      Fields(date_str, type_str, description_raw, amount_str, trans_id, bank_raw) ==
        IF IsSelfTransfer(type_str, description_raw) THEN <<>>
        ELSE Record(type_str, ParseDate(date_str), ParseAmount(amount_str),
                    CleanDescription(description_raw), trans_id, bank_raw)
  IN Fields(Render(text[m.date]),
            Render(text[m.type]),
            RenderSpan(text, m.descFrom, m.descTo),
            LeadingNumber(Render(text[m.amount]), TRUE),
            LeadingNumber(Render(text[m.id]), FALSE),
            m.bank)

\* lines 54-100: the list transactions after the loop over the matches
Transactions(text) ==
  LET Loop(matches) ==
        LET F[n \in 0..Len(matches)] ==
              IF n = 0 THEN <<>> ELSE F[n - 1] \o RecordsOfMatch(text, matches[n])
        IN F[Len(matches)]
  IN Loop(FindAll(text))

\* the rows of df at the positions of keep, in the order of df
Rows(df, keep) ==
  LET F[n \in 0..Len(df)] ==
        IF n = 0 THEN <<>>
        ELSE IF n \in keep THEN Append(F[n - 1], df[n]) ELSE F[n - 1]
  IN F[Len(df)]

\* df.drop_duplicates(subset=['Description'], keep='first')
DropDuplicatesByDescription(df) ==
  Rows(df, {k \in 1..Len(df) :
              \A j \in 1..(k - 1) : df[j].Description # df[k].Description})

\* df.drop_duplicates(subset=['Transaction ID'], keep='last')
DropDuplicatesByIdKeepLast(df) ==
  Rows(df, {k \in 1..Len(df) :
              \A j \in (k + 1)..Len(df) : df[j].TransactionID # df[k].TransactionID})

\* df.drop_duplicates(subset=['Transaction ID'], keep='first')
DropDuplicatesById(df) ==
  Rows(df, {k \in 1..Len(df) :
              \A j \in 1..(k - 1) : df[j].TransactionID # df[k].TransactionID})

\* df.drop_duplicates(subset=['Date', 'Description', 'Amount'], keep='first')
DropDuplicatesByFields(df) ==
  Rows(df, {k \in 1..Len(df) :
              \A j \in 1..(k - 1) :
                 <<df[j].Date, df[j].Description, df[j].Amount>>
                   # <<df[k].Date, df[k].Description, df[k].Amount>>})

\* DataFrame.sort_values('Date'): ascending; rows with equal dates keep their
\* order (the frames of the model are far below the size where pandas' default
\* quicksort stops being an insertion sort)
RECURSIVE SortByDate(_)
SortByDate(df) ==
  LET Take(first) ==
        <<df[first]>> \o
          SortByDate(SubSeq(df, 1, first - 1) \o SubSeq(df, first + 1, Len(df)))
      Least(least) == Take(Min({k \in 1..Len(df) : df[k].Date = least}))
  IN IF df = <<>> THEN <<>>
     ELSE Least(Min({df[k].Date : k \in 1..Len(df)}))

\* lines 102-112
FrameOf(rows) ==
  IF rows = <<>> THEN <<>>
  ELSE SortByDate(
         IF \A k \in 1..Len(rows) : "TransactionID" \in DOMAIN rows[k]
         THEN DropDuplicatesById(rows)
         ELSE DropDuplicatesByFields(rows))

\* extract_gpay_transactions_from_pdf on a file whose pages hold text
extract_gpay_transactions_from_pdf(text) == FrameOf(Transactions(text))


(***************************************************************************)
(* fuzz.token_set_ratio of the fuzzywuzzy package, as the code calls it on *)
(* line 130, with the ratio of python-Levenshtein that the code asks to be *)
(* installed: 2 * (longest common subsequence) / (sum of the lengths).     *)
(***************************************************************************)
\* the order of the characters
CharOrder == <<" ">> \o DigitChars \o UpperChars \o <<"_">> \o LowerChars
Ord(c) == IF \E k \in 1..Len(CharOrder) : CharOrder[k] = c
          THEN CHOOSE k \in 1..Len(CharOrder) : CharOrder[k] = c ELSE 0

\* a < b for strings
StrLess(a, b) ==
  \E k \in 1..(Len(b)) :
     /\ k <= Len(a) + 1
     /\ SubSeq(a, 1, k - 1) = SubSeq(b, 1, k - 1)
     /\ (k = Len(a) + 1 \/ Ord(a[k]) < Ord(b[k]))

\* utils.full_process: what is not a letter, a digit or _ becomes a blank; lower; strip
FullProcess(s) ==
  Strip(Lower(Listed([k \in 1..Len(s) |->
                 IF IsDigit(s[k]) \/ IsLetter(s[k]) \/ s[k] = "_" THEN s[k] ELSE " "])))

\* set(p.split())
TokenSet(p) ==
  LET Set(words) == {w \in {words[k] : k \in 1..Len(words)} : w # <<>>}
  IN Set(SplitWords(CollapseSpaces(p)))

\* " ".join(sorted(tokens))
RECURSIVE JoinSorted(_)
JoinSorted(tokens) ==
  LET Join(least, rest) == IF rest = <<>> THEN least ELSE least \o <<" ">> \o rest
      From(least) == Join(least, JoinSorted(tokens \ {least}))
  IN IF tokens = {} THEN <<>>
     ELSE From(CHOOSE w \in tokens : \A v \in tokens : v = w \/ StrLess(w, v))

\* one row of the table of longest common subsequences: prev[j + 1] is the
\* length for the characters before c and the first j characters of b
CommonRow(prev, c, b) ==
  Listed([j \in 1..(Len(b) + 1) |->
            Max({prev[j]} \cup {prev[k] + 1 : k \in {k \in 1..(j - 1) : b[k] = c}})])

\* the last row of the table, when prev is the row before character i of a
RECURSIVE CommonRows(_, _, _, _)
CommonRows(a, b, i, prev) ==
  IF prev = <<>> \/ i > Len(a) THEN prev
  ELSE CommonRows(a, b, i + 1, CommonRow(prev, a[i], b))

\* the length of the longest common subsequence of a and b
LongestCommon(a, b) ==
  CommonRows(a, b, 1, Listed([j \in 1..(Len(b) + 1) |-> 0]))[Len(b) + 1]

\* utils.intr(100 * num / den): round to the nearest, a half to the even one
RoundPercent(num, den) ==
  LET Round(q, r) == IF 2 * r > den \/ (2 * r = den /\ q % 2 = 1) THEN q + 1 ELSE q
  IN Round((100 * num) \div den, (100 * num) % den)

\* fuzz.ratio
Ratio(s1, s2) ==
  IF s1 = s2 THEN 100
  ELSE IF s1 = <<>> \/ s2 = <<>> THEN 0
  ELSE RoundPercent(2 * LongestCommon(s1, s2), Len(s1) + Len(s2))

\* fuzz.token_set_ratio
token_set_ratio(s1, s2) ==
  LET Best(sorted_sect, combined_1to2, combined_2to1) ==
        Max({Ratio(sorted_sect, combined_1to2),
             Ratio(sorted_sect, combined_2to1),
             Ratio(combined_1to2, combined_2to1)})
      Combined(sorted_sect, sorted_1to2, sorted_2to1) ==
        Best(sorted_sect,
             Strip(sorted_sect \o <<" ">> \o sorted_1to2),
             Strip(sorted_sect \o <<" ">> \o sorted_2to1))
      OfTokens(tokens1, tokens2) ==
        Combined(JoinSorted(tokens1 \cap tokens2),
                 JoinSorted(tokens1 \ tokens2),
                 JoinSorted(tokens2 \ tokens1))
      Processed(p1, p2) ==
        IF p1 = <<>> \/ p2 = <<>> THEN 0
        ELSE OfTokens(TokenSet(p1), TokenSet(p2))
  IN Processed(FullProcess(s1), FullProcess(s2))

(***************************************************************************)
(* categorize_transaction (lines 115-154).  A row of the rules table is a  *)
(* function from its columns to its cells; the cell "NaN" is an empty cell *)
(* of the sheet.  Merchant cells are strings (line 342).                   *)
(***************************************************************************)
\* row.get(column, default)
Get(row, column, default) == IF column \in DOMAIN row THEN row[column] ELSE default

\* the cell itself, without str()
Unconverted(cell) == cell

\* str(cell) of a Category or Subcategory cell
Str(cell) == IF cell = "NaN" THEN "nan" ELSE cell

\* line 145
transport_keywords ==
  << <<"r","a","p","i","d","o">>, <<"a","u","t","o">>, <<"o","l","a">>, <<"u","b","e","r">>, <<"m","e","t","r","o">>,
     <<"m","m","r","d","a">>, <<"r","a","i","l","w","a","y">>, <<"i","r","c","t","c">>, <<"t","r","a","i","n">>, <<"b","u","s">> >>

\* lines 143-154 with the range of line 146 open above
FallbackCategoryBelow50(description, amount) ==
  LET HasAny(desc_lower, kws) == \E k \in 1..Len(kws) : Contains(desc_lower, kws[k])
      Of(desc_lower) ==
        IF (15 <= amount /\ amount < 50) \/ HasAny(desc_lower, transport_keywords)
        THEN IF HasAny(desc_lower, <<transport_keywords[5], transport_keywords[6]>>)
             THEN <<"Transport", "Metro">>
             ELSE IF HasAny(desc_lower, <<transport_keywords[7], transport_keywords[8],
                                       transport_keywords[9]>>)
             THEN <<"Transport", "Train">>
             ELSE <<"Transport", "Auto">>
        ELSE <<"Misc", "Yet to Name">>
  IN Of(Lower(description))

\* lines 143-154
FallbackCategory(description, amount) ==
  LET HasAny(desc_lower, kws) == \E k \in 1..Len(kws) : Contains(desc_lower, kws[k])
      Of(desc_lower) ==
        IF (15 <= amount /\ amount <= 50) \/ HasAny(desc_lower, transport_keywords)
        THEN IF HasAny(desc_lower, <<transport_keywords[5], transport_keywords[6]>>)
             THEN <<"Transport", "Metro">>
             ELSE IF HasAny(desc_lower, <<transport_keywords[7], transport_keywords[8],
                                       transport_keywords[9]>>)
             THEN <<"Transport", "Train">>
             ELSE <<"Transport", "Auto">>
        ELSE <<"Misc", "Yet to Name">>
  IN Of(Lower(description))

\* lines 124-134: <<best_match_score, index of best_match_row or 0>> after the
\* pass of the loop on row n with that merchant, when it was best before
MatchRow(desc_search, merchant, n, best) ==
  LET Better(score) == IF score > best[1] THEN <<score, n>> ELSE best
  IN IF merchant = <<>> THEN best
     ELSE Better(token_set_ratio(desc_search, merchant))

\* lines 119-134: the same after the loop has passed rows 1..n
RECURSIVE BestMatch(_, _, _)
BestMatch(desc_search, logic_sheet_df, n) ==
  IF n = 0 THEN <<0, 0>>
  ELSE MatchRow(desc_search,
                Lower(Strip(Get(logic_sheet_df[n], "Merchant", <<>>))),
                n, BestMatch(desc_search, logic_sheet_df, n - 1))

\* a score above the threshold of line 136
MatchesAbove(best_match_score) == best_match_score > 70

\* line 136: the score reaches the threshold
Matches(best_match_score) == best_match_score >= 70

\* categorize_transaction without the check of fuzz on line 118
categorize_transaction_unguarded(description, amount, logic_sheet_df, fuzzy) ==
  LET Matched(best) ==
        IF Matches(best[1]) /\ best[2] # 0
        THEN <<Str(Get(logic_sheet_df[best[2]], "Category", "Misc")),
               Str(Get(logic_sheet_df[best[2]], "Subcategory", "Yet to Name"))>>
        ELSE FallbackCategory(description, amount)
  IN IF logic_sheet_df # <<>>
     THEN Matched(BestMatch(Lower(description), logic_sheet_df, Len(logic_sheet_df)))
     ELSE FallbackCategory(description, amount)

\* categorize_transaction; fuzzy is FALSE when the import of fuzzywuzzy failed
categorize_transaction(description, amount, logic_sheet_df, fuzzy) ==
  LET Matched(best) ==
        IF Matches(best[1]) /\ best[2] # 0
        THEN <<Str(Get(logic_sheet_df[best[2]], "Category", "Misc")),
               Str(Get(logic_sheet_df[best[2]], "Subcategory", "Yet to Name"))>>
        ELSE FallbackCategory(description, amount)
  IN IF logic_sheet_df # <<>> /\ fuzzy
     THEN Matched(BestMatch(Lower(description), logic_sheet_df, Len(logic_sheet_df)))
     ELSE FallbackCategory(description, amount)


(***************************************************************************)
(* The statements the model reads.  A statement is a sequence of segments, *)
(* one per dated entry, each ending in a blank (the line break).           *)
(***************************************************************************)
\* the words of a name with single blanks between them
Name(words) ==
  LET F[n \in 0..Len(words)] ==
        IF n = 0 THEN <<>>
        ELSE IF n = 1 THEN <<words[1]>>
        ELSE F[n - 1] \o <<"WS", words[n]>>
  IN F[Len(words)]

\* date, type, name, "UPI", amount, identifier, paying bank
EntryUpi(d, m, words, amt, id) ==
  <<d, "WS", m, "WS">> \o Name(words)
    \o <<"WS", "UPI", "WS", "RS", amt, "WS", "UPIID", "WS", id, "WS",
         "PAIDBY", "WS", "Bank", "WS">>

\* the same entry of a statement that prints no identifier
EntryNoId(d, m, words, amt) ==
  <<d, "WS", m, "WS">> \o Name(words) \o <<"WS", "UPI", "WS", "RS", amt, "WS">>

Segments ==
  { EntryUpi("D1", "PAIDTO", <<"Sudama">>, "26", "111"),
    EntryUpi("D2", "PAIDTO", <<"Ravi">>, "5000", "111"),
    EntryUpi("D2", "RECV", <<"Ravi">>, "5000", "222"),
    EntryUpi("D1", "RECV", <<"Sudama">>, "26", "111"),
    EntryUpi("D1", "SELFTO", <<"Sudama">>, "26", "222"),
    EntryUpi("D1", "PAIDTO", <<"Google", "Pay", "Rewards">>, "26", "222"),
    EntryUpi("D1", "PAIDTO", <<"Better", "luck", "next", "time">>, "26", "222"),
    EntryUpi("D2", "PAIDTO", <<"Sudama">>, "0", "222"),
    EntryNoId("D1", "PAIDTO", <<"Sudama">>, "26") }

\* the texts of n segments
RECURSIVE TextsOf(_)
TextsOf(n) ==
  IF n = 0 THEN {<<>>}
  ELSE {t \o sg : t \in TextsOf(n - 1), sg \in Segments}

\* a file of the folder: one that PyPDF2 cannot read, or one with n segments
FilesOf(n) ==
  IF n = 0 THEN {[readable |-> FALSE, text |-> <<>>], [readable |-> TRUE, text |-> <<>>]}
  ELSE {[readable |-> TRUE, text |-> t] : t \in TextsOf(n)}

\* the folders of docs files with at most segs segments in all, none of more
\* than most segments.  A folder has no order of its own (Glob below gives it
\* one), so its files are written with the longest first.
RECURSIVE FoldersOf(_, _, _)
FoldersOf(docs, segs, most) ==
  IF docs = 0 THEN {<<>>}
  ELSE UNION {{<<f>> \o rest : f \in FilesOf(n), rest \in FoldersOf(docs - 1, segs - n, n)} :
              n \in 0..Min({segs, most})}

Folders == UNION {FoldersOf(docs, MaxSegs, MaxSegs) : docs \in 1..MaxDocs}

\* two merchants that token_set_ratio scores 69 and 70 against the counterparty
\* "Better luck next time"
NearMiss == <<"b","e","t","t","e","r","l","u","c","k","n">>
NearMatch ==
  <<"b","e","t","t","e","r","l","u","c","k","n","e","x","t","z","z","z","z","z">>

\* the rules tables of the model: none; one whose second rule has empty
\* Category and Subcategory cells; one without those columns, whose second
\* Merchant cell was empty before line 342; one whose rules score 69 and 70
\* against a counterparty of the statements; one with the rule of 69 alone
RuleTables ==
  { <<>>,
    << [Merchant |-> <<"S","u","d","a","m","a">>, Category |-> "Food",
        Subcategory |-> "Snacks"],
       [Merchant |-> <<"R","a","v","i">>, Category |-> "NaN", Subcategory |-> "NaN"] >>,
    << [Merchant |-> <<"R","a","v","i">>], [Merchant |-> <<"n","a","n">>] >>,
    << [Merchant |-> NearMiss, Category |-> "Games", Subcategory |-> "Lottery"],
       [Merchant |-> NearMatch, Category |-> "Rewards", Subcategory |-> "Scratch"] >>,
    << [Merchant |-> NearMiss, Category |-> "Games", Subcategory |-> "Lottery"] >> }

(***************************************************************************)
(* The state: the downloaded folder, the rules table and the fuzzywuzzy    *)
(* import, and the variables of process_pdf_data as the sync runs it.      *)
(***************************************************************************)
VARIABLES
  folder,            \* the files of temp_data
  logic_sheet_df,    \* the rules table
  fuzz,              \* FALSE when the import of fuzzywuzzy failed (fuzz = None)
  pc,                \* "idle", "loop" (lines 161-168) or "done"
  pdf_files,         \* line 1042: the files in the order glob lists them
  next_file,         \* the position in pdf_files of the loop on line 161
  transactions,      \* line 100: the list transactions of each file read so far
  all_transactions,  \* line 159
  warned,            \* the files line 168 warned about
  combined_df,       \* lines 173-192, as it is when line 194 is reached
  expense_df,        \* the table process_pdf_data returned
  run,               \* the number of the sync
  prev_df,           \* the table the sync before returned
  call,              \* the arguments of a function that is called on its own
  returned,          \* what that call returned
  session_state,     \* st.session_state of each browser session
  script,            \* each session's run of the script and what it rendered
  temp_data          \* the files of the directory temp_data, shared by the sessions

vars == <<folder, logic_sheet_df, fuzz, pc, pdf_files, next_file, transactions,
          all_transactions, warned, combined_df, expense_df, run, prev_df,
          call, returned, session_state, script, temp_data>>

\* the variables of the sessions of the application
app == <<session_state, script, temp_data>>

\* no browser session is open
NoSession ==
  /\ session_state = <<>>
  /\ script = <<>>
  /\ temp_data = {}

Init ==
  /\ folder \in Folders
  /\ logic_sheet_df \in RuleTables
  /\ fuzz \in BOOLEAN
  /\ pc = "idle"
  /\ pdf_files = <<>>
  /\ next_file = 1
  /\ transactions = <<>>
  /\ all_transactions = <<>>
  /\ warned = {}
  /\ combined_df = <<>>
  /\ expense_df = <<>>
  /\ run = 1
  /\ prev_df = <<>>
  /\ call = <<>>
  /\ returned = <<>>
  /\ NoSession

\* the orders in which glob can list the files 1..n
Orders(n) ==
  {o \in [1..n -> 1..n] : \A a, b \in 1..n : a # b => o[a] # o[b]}

\* line 1042 and the call on line 1049: glob lists the files in an order of the
\* file system's choosing
Glob ==
  /\ pc = "idle"
  /\ \E o \in Orders(Len(folder)) : pdf_files' = o
  /\ pc' = "loop"
  /\ next_file' = 1
  /\ transactions' = <<>>
  /\ all_transactions' = <<>>
  /\ warned' = {}
  /\ UNCHANGED <<folder, logic_sheet_df, fuzz, combined_df, expense_df, run, prev_df,
                 call, returned, app>>

\* lines 54-100 on file f: the list transactions, with the file written into At
TransactionsOfFile(f) ==
  LET In(found) ==
        [k \in 1..Len(found) |->
           [found[k] EXCEPT !.At = [file |-> f, date |-> @.date, type |-> @.type,
                                    amount |-> @.amount, id |-> @.id]]]
  IN Listed(In(Transactions(folder[f].text)))

\* lines 161-168 without the try of line 162: a file that cannot be read ends
\* the loop, and the files after it are not read
ProcessFileAborting ==
  /\ pc = "loop"
  /\ next_file <= Len(pdf_files)
  /\ LET Keep(found, df) ==
           /\ transactions' = Append(transactions, found)
           /\ all_transactions' =
                IF df # <<>> THEN Append(all_transactions, df) ELSE all_transactions
           /\ warned' = warned
           /\ next_file' = next_file + 1
         Extract(found) == Keep(found, FrameOf(found))
         Open(pdf_path) ==
           IF folder[pdf_path].readable
           THEN Extract(TransactionsOfFile(pdf_path))
           ELSE /\ warned' = warned \cup {pdf_path}
                /\ next_file' = Len(pdf_files) + 1
                /\ UNCHANGED <<transactions, all_transactions>>
     IN Open(pdf_files[next_file])
  /\ UNCHANGED <<folder, logic_sheet_df, fuzz, pc, pdf_files, combined_df, expense_df,
                 run, prev_df, call, returned, app>>

\* lines 161-168: one pass of the loop over pdf_files
ProcessFile ==
  /\ pc = "loop"
  /\ next_file <= Len(pdf_files)
  /\ LET Keep(found, df) ==
           /\ transactions' = Append(transactions, found)
           /\ all_transactions' =
                IF df # <<>> THEN Append(all_transactions, df) ELSE all_transactions
           /\ warned' = warned
         Extract(found) == Keep(found, FrameOf(found))
         Open(pdf_path) ==
           IF folder[pdf_path].readable
           THEN Extract(TransactionsOfFile(pdf_path))
           ELSE /\ warned' = warned \cup {pdf_path}
                /\ UNCHANGED <<transactions, all_transactions>>
     IN Open(pdf_files[next_file])
  /\ next_file' = next_file + 1
  /\ UNCHANGED <<folder, logic_sheet_df, fuzz, pc, pdf_files, combined_df, expense_df,
                 run, prev_df, call, returned, app>>

\* pd.concat(all_transactions, ignore_index=True)
Concat(frames) ==
  LET F[n \in 0..Len(frames)] == IF n = 0 THEN <<>> ELSE F[n - 1] \o frames[n]
  IN F[Len(frames)]

\* lines 178-192 without the branch of lines 181-183
CategorizedAsExpense(row, rules, fuzzy) ==
  LET With(c) ==
        [Date |-> row.Date, Description |-> row.Description, Amount |-> row.Amount,
         Type |-> row.Type, TransactionID |-> row.TransactionID, Bank |-> row.Bank,
         Category |-> c[1], SubCategory |-> c[2], At |-> row.At]
  IN With(categorize_transaction(row.Description, row.Amount, rules, fuzzy))

\* lines 178-192: the row with its Category and Sub Category
Categorized(row, rules, fuzzy) ==
  LET With(c) ==
        [Date |-> row.Date, Description |-> row.Description, Amount |-> row.Amount,
         Type |-> row.Type, TransactionID |-> row.TransactionID, Bank |-> row.Bank,
         Category |-> c[1], SubCategory |-> c[2], At |-> row.At]
  IN With(IF row.Type = "Received" THEN <<"Income", "Received">>
          ELSE categorize_transaction(row.Description, row.Amount, rules, fuzzy))

\* lines 173-192
CombinedFrame(frames, rules, fuzzy) ==
  LET Each(unique) ==
        Listed([k \in 1..Len(unique) |-> Categorized(unique[k], rules, fuzzy)])
      Unique(concat) ==
        Each(IF \A k \in 1..Len(concat) : "TransactionID" \in DOMAIN concat[k]
             THEN DropDuplicatesById(concat)
             ELSE concat)
  IN Unique(Concat(frames))

\* lines 194-195 without the filter of line 194
ExpenseFrameUnfiltered(combined) ==
  Listed([k \in 1..Len(combined) |->
            [c \in DOMAIN combined[k] \ {"Type"} |-> combined[k][c]]])

\* lines 194-195: the Sent rows, without the column Type
ExpenseFrame(combined) ==
  LET Drop(sent) ==
        Listed([k \in 1..Len(sent) |->
                  [c \in DOMAIN sent[k] \ {"Type"} |-> sent[k][c]]])
  IN Drop(SelectSeq(combined, LAMBDA r : r.Type = "Sent"))

\* lines 173-197 without the return of lines 170-171: pd.concat raises on the
\* empty list and process_pdf_data ends in an exception
CombineUnguarded ==
  /\ pc = "loop"
  /\ next_file > Len(pdf_files)
  /\ IF all_transactions = <<>>
     THEN /\ pc' = "error"
          /\ UNCHANGED <<combined_df, expense_df>>
     ELSE /\ combined_df' = CombinedFrame(all_transactions, logic_sheet_df, fuzz)
          /\ expense_df' = ExpenseFrame(combined_df')
          /\ pc' = "done"
  /\ UNCHANGED <<folder, logic_sheet_df, fuzz, pdf_files, next_file, transactions,
                 all_transactions, warned, run, prev_df, call, returned, app>>

\* lines 170-197: the rest of process_pdf_data once the loop has ended
Combine ==
  /\ pc = "loop"
  /\ next_file > Len(pdf_files)
  /\ IF all_transactions = <<>>
     THEN /\ combined_df' = <<>>
          /\ expense_df' = <<>>
     ELSE /\ combined_df' = CombinedFrame(all_transactions, logic_sheet_df, fuzz)
          /\ expense_df' = ExpenseFrame(combined_df')
  /\ pc' = "done"
  /\ UNCHANGED <<folder, logic_sheet_df, fuzz, pdf_files, next_file, transactions,
                 all_transactions, warned, run, prev_df, call, returned, app>>

\* line 1034: the user presses "Sync Now" and the same folder is processed again
SyncAgain ==
  /\ pc = "done"
  /\ run < MaxRuns
  /\ run' = run + 1
  /\ prev_df' = expense_df
  /\ pc' = "idle"
  /\ pdf_files' = <<>>
  /\ next_file' = 1
  /\ transactions' = <<>>
  /\ all_transactions' = <<>>
  /\ warned' = {}
  /\ combined_df' = <<>>
  /\ expense_df' = <<>>
  /\ UNCHANGED <<folder, logic_sheet_df, fuzz, call, returned, app>>

\* one sync of the folder
Next == Glob \/ ProcessFile \/ Combine

Spec == Init /\ [][Next]_vars

\* the syncs of one session, all of the same folder with the same rules table
NextAgain == Glob \/ ProcessFile \/ Combine \/ SyncAgain

SpecAgain == Init /\ [][NextAgain]_vars

(***************************************************************************)
(* The spans of a text (section 4.1 of the specification): a span runs     *)
(* from a date to the next date or the end of the text.  The properties    *)
(* below are stated on the spans the records were read from.               *)
(***************************************************************************)
\* the rows of a frame
RowsOf(df) == {df[k] : k \in 1..Len(df)}

\* the rows of the frames a run holds: what the extractor returned for each
\* file, the combined frame and the returned table
ExtractedRows == UNION {RowsOf(all_transactions[k]) : k \in 1..Len(all_transactions)}
OutputRows == ExtractedRows \cup RowsOf(combined_df) \cup RowsOf(expense_df)

\* the date that starts the span of position p, or 0
SpanStart(text, p) ==
  IF \E i \in 1..p : text[i] \in DateTokens
  THEN Max({i \in 1..p : text[i] \in DateTokens}) ELSE 0

\* the last position of the span that starts at i
SpanEnd(text, i) ==
  IF \E k \in (i + 1)..Len(text) : text[k] \in DateTokens
  THEN Min({k \in (i + 1)..Len(text) : text[k] \in DateTokens}) - 1 ELSE Len(text)

\* the first type marker of the span that starts at i, or "none"
SpanMarker(text, i) ==
  LET at == {j \in i..SpanEnd(text, i) : text[j] \in MarkerTokens}
  IN IF at = {} THEN "none" ELSE text[Min(at)]

\* the files of the folder that the loop has read
ReadFiles == {pdf_files[k] : k \in 1..(next_file - 1)}

\* the matches of the regular expression in the files read
MatchesRead ==
  UNION {{<<f, m>> : m \in RowsOf(FindAll(folder[f].text))} :
         f \in {g \in ReadFiles : folder[g].readable}}

C5_AmountPositive == \A r \in OutputRows : r.Amount > 0

\* a run has ended that read an entry with the amount 0 and returned a record
C5_Witness ==
  /\ pc = "done"
  /\ expense_df # <<>>
  /\ \E fm \in MatchesRead : folder[fm[1]].text[fm[2].amount] = "0"

\* C6: no record of the output has a counterparty that contains "google pay
\* rewards" in any letter case.
C6_RewardsFiltered ==
  \A r \in OutputRows :
     ~Contains(Lower(r.Description),
               <<"g","o","o","g","l","e"," ","p","a","y"," ","r","e","w","a","r","d","s">>)

\* a run has ended in which the regular expression matched an entry paid to
\* "Google Pay Rewards"
C6_Witness ==
  /\ pc = "done"
  /\ \E fm \in MatchesRead :
        Contains(Lower(RenderSpan(folder[fm[1]].text, fm[2].descFrom, fm[2].descTo)),
                 <<"g","o","o","g","l","e"," ","p","a","y"," ","r","e","w","a","r","d","s">>)

\* C8: every record of the returned table has a category that is a string with
\* at least one character, never the empty cell, whatever the rules table is.
C8_CategoryTotal ==
  \A r \in RowsOf(expense_df) \cup RowsOf(combined_df) :
     r.Category \notin {"", "NaN"}

\* a table was returned under the empty rules table with a record that no
\* heuristic names, which got the category Misc
C8_Witness ==
  /\ pc = "done"
  /\ logic_sheet_df = <<>>
  /\ \E r \in RowsOf(expense_df) : r.Category = "Misc"

\* C9: every record whose type is Received has the category Income and the
\* sub-category Received, whatever the rules table holds.
C9_IncomeShortCircuit ==
  \A r \in RowsOf(combined_df) :
     r.Type = "Received" => r.Category = "Income" /\ r.SubCategory = "Received"

\* a Received record whose counterparty a rule of the table names was categorized
C9_Witness ==
  /\ pc = "done"
  /\ fuzz
  /\ \E r \in RowsOf(combined_df) :
        /\ r.Type = "Received"
        /\ \E k \in 1..Len(logic_sheet_df) : logic_sheet_df[k].Merchant = r.Description

\* the accepted records of the run in the order they were seen: file after
\* file as the loop read them, each file in the order of its text
Seen == Concat(transactions)

\* the positions of the rows of df that carry the identifier id
WithId(df, id) == {k \in 1..Len(df) : df[k].TransactionID = id}

\* the identifiers that two accepted records of the run share
SharedIds ==
  {Seen[a].TransactionID : a \in {a \in 1..Len(Seen) :
      \E b \in 1..Len(Seen) : b # a /\ Seen[b].TransactionID = Seen[a].TransactionID}}

\* C2 as stated: when two candidates of a run share an identifier, the returned
\* table holds exactly one record with that identifier.
C2_ExactlyOneReturned ==
  pc = "done" => \A id \in SharedIds : Cardinality(WithId(expense_df, id)) = 1

\* C2, amended: when two accepted candidates of a run share an identifier,
\* exactly one record with that identifier is left after the duplicates are
\* dropped; the returned table holds that record when its type is Sent and no
\* record with that identifier otherwise.
C2_OneAfterDedup ==
  pc = "done" =>
    \A id \in SharedIds :
       /\ Cardinality(WithId(combined_df, id)) = 1
       /\ \A k \in WithId(combined_df, id) :
             Cardinality(WithId(expense_df, id)) =
               IF combined_df[k].Type = "Sent" THEN 1 ELSE 0

\* a run has ended in which two files held accepted records with the same
\* identifier and the returned table holds a record with it
C2_Witness ==
  /\ pc = "done"
  /\ \E a, b \in 1..Len(Seen) :
        /\ Seen[a].At.file # Seen[b].At.file
        /\ Seen[a].TransactionID = Seen[b].TransactionID
        /\ WithId(expense_df, Seen[a].TransactionID) # {}

\* the first of rows that carries the identifier id
FirstSeen(rows, id) == rows[Min(WithId(rows, id))]

\* C4: of the records that share an identifier, a file's frame keeps the one
\* that comes first in the text of the file, and the combined frame keeps the
\* one of the file that was read first; no later record with that identifier
\* is kept.
C4_FirstSeenWins ==
  /\ \A r \in ExtractedRows :
        r.At = FirstSeen(SelectSeq(Seen, LAMBDA x : x.At.file = r.At.file),
                         r.TransactionID).At
  /\ \A k \in 1..Len(combined_df) :
        /\ combined_df[k].At = FirstSeen(Seen, combined_df[k].TransactionID).At
        /\ WithId(combined_df, combined_df[k].TransactionID) = {k}

\* a run has ended in which two files held accepted records with the same
\* identifier and different counterparties
C4_Witness ==
  /\ pc = "done"
  /\ \E a, b \in 1..Len(Seen) :
        /\ Seen[a].At.file # Seen[b].At.file
        /\ Seen[a].TransactionID = Seen[b].TransactionID
        /\ Seen[a].Description # Seen[b].Description
        /\ WithId(combined_df, Seen[a].TransactionID) # {}

\* C7: no record of the output has a counterparty that, in lower case and
\* without its blanks, contains "betterlucknexttime".
C7_BetterLuckFiltered ==
  \A r \in OutputRows :
     ~Contains(RemoveSpaces(Lower(r.Description)),
               <<"b","e","t","t","e","r","l","u","c","k","n","e","x","t","t","i","m","e">>)

(***************************************************************************)
(* The candidate of a span as sections 4.1 and 4.2 of the specification    *)
(* read it: the type is the first marker, the counterparty runs from the   *)
(* marker to the first rupee sign or "UPI", the amount follows the rupee   *)
(* sign, and the identifier, when the span prints one, follows the label   *)
(* "UPI Transaction ID:".                                                  *)
(***************************************************************************)
\* the span that starts at i prints an identifier
SpanHasId(text, i) ==
  \E k \in i..SpanEnd(text, i) : text[k] \in {"UPIID", "UPIIDX"}

\* the counterparty of the span that starts at i
SpanCounterparty(text, i) ==
  LET e    == SpanEnd(text, i)
      j    == Min({k \in i..e : text[k] \in MarkerTokens})
      stop == Min({k \in (j + 1)..e : text[k] \in {"RS", "UPI", "UPIID", "UPIIDX"}}
                  \cup {e + 1})
  IN CollapseSpaces(Strip(RenderSpan(text, j + 1, stop - 1)))

\* the amount of the span that starts at i, or -1
SpanAmount(text, i) ==
  LET at == {k \in i..(SpanEnd(text, i) - 1) :
               text[k] = "RS" /\ text[k + 1] \in NumTokens}
  IN IF at = {} THEN -1 ELSE ParseAmount(Render(text[Min(at) + 1]))

\* the dates, in the files read, of the spans that are payments with a date, a
\* counterparty and an amount above zero but without an identifier
PaymentsWithoutId ==
  UNION {{<<f, i>> : i \in {i \in 1..Len(folder[f].text) :
                              /\ folder[f].text[i] \in DateTokens
                              /\ ParseDate(Render(folder[f].text[i])) # 0
                              /\ SpanMarker(folder[f].text, i) = "PAIDTO"
                              /\ ~SpanHasId(folder[f].text, i)
                              /\ Len(SpanCounterparty(folder[f].text, i)) >= 2
                              /\ SpanAmount(folder[f].text, i) > 0}} :
         f \in {g \in ReadFiles : folder[g].readable}}

\* the date, the counterparty and the amount of the span at c = <<file, date>>
CompositeKey(c) ==
  <<ParseDate(Render(folder[c[1]].text[c[2]])),
    SpanCounterparty(folder[c[1]].text, c[2]),
    SpanAmount(folder[c[1]].text, c[2])>>

\* C3: when two candidates without an identifier have the same date,
\* counterparty and amount, the returned table holds exactly one record with
\* that date, counterparty and amount.
C3_CompositeKeyDedup ==
  pc = "done" =>
    \A c, d \in PaymentsWithoutId :
       (c # d /\ CompositeKey(c) = CompositeKey(d)) =>
          Cardinality({k \in 1..Len(expense_df) :
                         <<expense_df[k].Date, expense_df[k].Description,
                           expense_df[k].Amount>> = CompositeKey(c)}) = 1

\* the columns of a table that a reader of the table sees
Visible(df) ==
  [k \in 1..Len(df) |-> [c \in DOMAIN df[k] \ {"At"} |-> df[k][c]]]

\* C10: the second sync of a folder, with the same rules table, returns the
\* table the first sync returned: the same records in the same order with the
\* same categories.
C10_Deterministic ==
  (run = 2 /\ pc = "done") => Visible(expense_df) = Visible(prev_df)

\* C11: the table a run returns is ordered by date ascending: of any two of
\* its records, the earlier in the table has no later date.
C11_DateAscending ==
  \A i, j \in 1..Len(expense_df) :
     i < j => expense_df[i].Date <= expense_df[j].Date

(***************************************************************************)
(* The rule that decides a counterparty, stated on the whole rules table:  *)
(* the best score is the greatest of the scores of the rules, and the rule *)
(* that has it is the first one of the table with that score.              *)
(***************************************************************************)
\* the score of rule k of the table for the counterparty
ScoreOf(description, rules, k) ==
  token_set_ratio(Lower(description), Lower(Strip(Get(rules[k], "Merchant", <<>>))))

\* the best score of the table for the counterparty
BestScore(description, rules) ==
  Max({0} \cup {ScoreOf(description, rules, k) : k \in 1..Len(rules)})

\* the first rule of the table with the best score
BestRule(description, rules) ==
  Min({k \in 1..Len(rules) :
         ScoreOf(description, rules, k) = BestScore(description, rules)})

\* the category and sub-category of rule k, as strings
RuleCategory(rules, k) ==
  <<Str(Get(rules[k], "Category", "Misc")),
    Str(Get(rules[k], "Subcategory", "Yet to Name"))>>

\* what the threshold decides for a Sent record r under the rules table
DecidedByThreshold(r, rules) ==
  <<r.Category, r.SubCategory>> =
    IF BestScore(r.Description, rules) >= 70
    THEN RuleCategory(rules, BestRule(r.Description, rules))
    ELSE FallbackCategory(r.Description, r.Amount)

\* C12 as stated: under a non-empty rules table every Sent record has the
\* category and sub-category of the best-scoring rule when the best score is
\* 70 or more, and those of the fallback heuristics when it is below 70.
C12_FuzzyThreshold ==
  \A r \in RowsOf(combined_df) :
     (r.Type = "Sent" /\ logic_sheet_df # <<>>) => DecidedByThreshold(r, logic_sheet_df)

\* C12, amended: the same when fuzzywuzzy was imported; when the import
\* failed, every Sent record has the category and sub-category of the
\* fallback heuristics, whatever the rules table holds.
C12_ThresholdWhenFuzzy ==
  \A r \in RowsOf(combined_df) :
     (r.Type = "Sent" /\ logic_sheet_df # <<>>) =>
        IF fuzz THEN DecidedByThreshold(r, logic_sheet_df)
        ELSE <<r.Category, r.SubCategory>> = FallbackCategory(r.Description, r.Amount)

\* with fuzzywuzzy imported, a run has categorized a Sent record whose best
\* rule scores exactly 70 and differs from what the fallback heuristics say
C12_Witness ==
  /\ pc = "done"
  /\ fuzz
  /\ \E r \in RowsOf(combined_df) :
        /\ r.Type = "Sent"
        /\ logic_sheet_df # <<>>
        /\ BestScore(r.Description, logic_sheet_df) = 70
        /\ <<r.Category, r.SubCategory>> # FallbackCategory(r.Description, r.Amount)

(***************************************************************************)
(* categorize_transaction called on its own (the call of line 185): the    *)
(* counterparty and the amount of a Sent record are drawn from the sets    *)
(* below, the rules table and the import of fuzzywuzzy as in a sync.       *)
(***************************************************************************)
\* counterparties, some of which hold the keywords of line 145
Counterparties ==
  { <<"S","u","d","a","m","a">>,
    <<"R","a","v","i">>,
    <<"B","e","t","t","e","r"," ","l","u","c","k"," ","n","e","x","t"," ","t","i","m","e">>,
    <<"M","u","m","b","a","i"," ","M","e","t","r","o">>,
    <<"I","R","C","T","C">>,
    <<"M","e","t","r","o"," ","T","r","a","i","n">>,
    <<"R","a","p","i","d","o">>,
    <<"C","i","t","y"," ","B","u","s"," ","S","t","a","n","d">>,
    <<"N","a","n"," ","K","i","n","g">> }

\* rules tables with rules that tie and rules without a merchant: two rules
\* that name the same merchant; and a table whose first Merchant cell holds
\* blanks and whose second was empty in the sheet, which pandas reads as NaN
\* and str() of line 125 (and line 342 before it) turns into "nan"
TieTables ==
  { << [Merchant |-> <<"R","a","v","i">>, Category |-> "People", Subcategory |-> "Friend"],
       [Merchant |-> <<"r","a","v","i">>, Category |-> "Work", Subcategory |-> "Client"] >>,
    << [Merchant |-> <<" "," ">>, Category |-> "Blank", Subcategory |-> "Blank"],
       [Merchant |-> <<"n","a","n">>, Category |-> "Empty", Subcategory |-> "Empty"],
       [Merchant |-> <<"R","a","v","i">>, Category |-> "People", Subcategory |-> "Friend"],
       [Merchant |-> <<"R","a","v","i"," ">>, Category |-> "Work", Subcategory |-> "Client"] >> }

\* amounts around the ends of the range of line 146
CallAmounts == {14, 15, 50, 51, 5000}

\* the state before a call of a function on its own: no sync is running
NoSync ==
  /\ folder = <<>>
  /\ pc = "call"
  /\ pdf_files = <<>>
  /\ next_file = 1
  /\ transactions = <<>>
  /\ all_transactions = <<>>
  /\ warned = {}
  /\ combined_df = <<>>
  /\ expense_df = <<>>
  /\ run = 1
  /\ prev_df = <<>>
  /\ returned = <<>>
  /\ NoSession

InitCategorize ==
  /\ NoSync
  /\ logic_sheet_df \in RuleTables \cup TieTables
  /\ fuzz \in BOOLEAN
  /\ call \in [description : Counterparties, amount : CallAmounts]

\* the call categorize_transaction(description, amount, logic_sheet_df)
Categorize ==
  /\ pc = "call"
  /\ returned' = categorize_transaction(call.description, call.amount, logic_sheet_df, fuzz)
  /\ pc' = "returned"
  /\ UNCHANGED <<folder, logic_sheet_df, fuzz, pdf_files, next_file, transactions,
                 all_transactions, warned, combined_df, expense_df, run, prev_df, call, app>>

SpecCategorize == InitCategorize /\ [][Categorize]_vars

\* the counterparty, in lower case, contains one of the words
HasWord(description, words) ==
  \E w \in words : Contains(Lower(description), w)

MetroWords == {<<"m","e","t","r","o">>, <<"m","m","r","d","a">>}
RailwayWords == {<<"r","a","i","l","w","a","y">>, <<"i","r","c","t","c">>, <<"t","r","a","i","n">>}
TransportWords ==
  MetroWords \cup RailwayWords \cup {<<"r","a","p","i","d","o">>, <<"a","u","t","o">>, <<"o","l","a">>, <<"u","b","e","r">>, <<"b","u","s">>}

\* no rule of the table decides the call: there is no table, fuzzywuzzy is
\* missing, or the best score is below 70
NoRuleApplies ==
  logic_sheet_df = <<>> \/ ~fuzz \/ BestScore(call.description, logic_sheet_df) < 70

\* C13: when no rule applies, the call returns ("Transport", X) if and only if
\* the amount is in [15, 50] or the counterparty contains a transport keyword,
\* with X "Metro" when a metro keyword is in it, else "Train" when a railway
\* keyword is in it, else "Auto"; in every other case it returns ("Misc",
\* "Yet to Name").
C13_FallbackHeuristics ==
  (pc = "returned" /\ NoRuleApplies) =>
     returned =
       IF (15 <= call.amount /\ call.amount <= 50) \/ HasWord(call.description, TransportWords)
       THEN <<"Transport",
              IF HasWord(call.description, MetroWords) THEN "Metro"
              ELSE IF HasWord(call.description, RailwayWords) THEN "Train"
              ELSE "Auto">>
       ELSE <<"Misc", "Yet to Name">>

\* a call with the amount 50 and a counterparty without a transport keyword
\* returned under a rules table of which no rule applies
C13_Witness ==
  /\ pc = "returned"
  /\ NoRuleApplies
  /\ logic_sheet_df # <<>>
  /\ fuzz
  /\ call.amount = 50
  /\ ~HasWord(call.description, TransportWords)

\* the accepted records of the readable files of the folder
AcceptedOfFolder ==
  UNION {RowsOf(TransactionsOfFile(f)) : f \in {g \in 1..Len(folder) : folder[g].readable}}

\* C14: a file of the batch that cannot be opened or parsed does not end the
\* batch: when the run has ended, every accepted record of every other file
\* is in the combined frame, itself or the first-seen record with its
\* identifier, and every accepted Sent record whose identifier no other
\* accepted record carries is in the returned table.
C14_BatchIsolation ==
  pc = "done" =>
    \A x \in AcceptedOfFolder :
       /\ WithId(combined_df, x.TransactionID) # {}
       /\ (/\ x.Type = "Sent"
           /\ \A y \in AcceptedOfFolder : y.TransactionID = x.TransactionID => y.At = x.At)
          => \E k \in 1..Len(expense_df) : expense_df[k].At = x.At

\* a run has ended in which the file read first could not be opened and a file
\* read after it gave a record of the returned table
C14_Witness ==
  /\ pc = "done"
  /\ pdf_files[1] \in warned
  /\ \E k \in 1..Len(expense_df) : expense_df[k].At.file # pdf_files[1]

\* C15: files from which no transaction is extracted give an empty table and
\* no exception: the run is never in an error state, no readable file is
\* warned about, and a run that accepted no record ends with an empty
\* combined frame and an empty returned table.
C15_EmptyNotError ==
  /\ pc \in {"idle", "loop", "done"}
  /\ \A f \in ReadFiles : f \in warned => ~folder[f].readable
  /\ (pc = "done" /\ \A k \in 1..Len(transactions) : transactions[k] = <<>>)
       => (combined_df = <<>> /\ expense_df = <<>>)

\* a run has ended that read a file with an entry in its text, accepted no
\* record of any file and returned the empty table
C15_Witness ==
  /\ pc = "done"
  /\ \E f \in ReadFiles : folder[f].readable /\ folder[f].text # <<>>
  /\ \A k \in 1..Len(transactions) : transactions[k] = <<>>
  /\ expense_df = <<>>

(***************************************************************************)
(* extract_gpay_transactions_from_pdf called on its own, on the text of    *)
(* one file.  The entries below add, to well-formed entries, the entries   *)
(* that sections 4.1, 4.2 and 7 of the specification speak of: a date in a *)
(* line without a type marker, an entry without an amount, an entry with a *)
(* date that is no day of the calendar, a counterparty of one character,   *)
(* a counterparty that the rupee sign ends, and an entry whose words are   *)
(* run together as PyPDF2 may return them.                                 *)
(***************************************************************************)
\* a date in a line that is no transaction (a header or a footer)
EntryHeader(d) == <<d, "WS", "Statement", "WS">>

\* an entry that prints no amount
EntryNoAmount(d, m, words, id) ==
  <<d, "WS", m, "WS">> \o Name(words)
    \o <<"WS", "UPI", "WS", "UPIID", "WS", id, "WS", "PAIDBY", "WS", "Bank", "WS">>

\* an entry whose counterparty is followed by the rupee sign and the amount
EntryRs(d, m, words, amt, id) ==
  <<d, "WS", m, "WS">> \o Name(words)
    \o <<"WS", "RS", amt, "WS", "1001AM", "WS", "UPIID", "WS", id, "WS",
         "PAIDBY", "WS", "Bank", "WS">>

\* the same entry with its words run together
EntryRunTogether(amt, id) ==
  <<"DX", "WS", "PAIDTOX", "SudamaSupane", "WS", "RS", amt, "WS", "1001AM", "WS",
    "UPIIDX", id, "WS", "PAIDBYX", "Bank", "WS">>

ExtractSegments ==
  { EntryUpi("D1", "PAIDTO", <<"Sudama">>, "26", "111"),
    EntryUpi("D2", "PAIDTO", <<"Ravi">>, "5000", "222"),
    EntryUpi("D2", "RECV", <<"Ravi">>, "5000", "111"),
    EntryUpi("D1", "SELFTO", <<"Sudama">>, "26", "222"),
    EntryUpi("D2", "PAIDTO", <<"Sudama">>, "0", "222"),
    EntryUpi("DB", "PAIDTO", <<"Sudama">>, "26", "111"),
    EntryUpi("D1", "PAIDTO", <<"X">>, "26", "111"),
    EntryHeader("D2"),
    EntryNoAmount("D1", "PAIDTO", <<"Sudama">>, "111"),
    EntryNoId("D1", "PAIDTO", <<"Sudama">>, "26"),
    EntryRs("D1", "PAIDTO", <<"Sudama">>, "26", "111"),
    EntryRunTogether("26", "111"),
    EntryUpi("D1", "PAIDTO", <<"Self", "transfer">>, "26", "111"),
    EntryUpi("D2", "RECV", <<"Ravi", "Self", "transfer">>, "5000", "222") }

\* the texts of n of these entries
RECURSIVE ExtractTextsOf(_)
ExtractTextsOf(n) ==
  IF n = 0 THEN {<<>>}
  ELSE {t \o sg : t \in ExtractTextsOf(n - 1), sg \in ExtractSegments}

ExtractTexts == UNION {ExtractTextsOf(n) : n \in 1..MaxSegs}

InitExtract ==
  /\ NoSync
  /\ logic_sheet_df = <<>>
  /\ fuzz = TRUE
  /\ call \in [text : ExtractTexts]

\* the call extract_gpay_transactions_from_pdf(f) on a file with that text:
\* the list transactions of line 100 and the frame returned on line 112
Extract ==
  /\ pc = "call"
  /\ returned' = [transactions |-> Transactions(call.text),
                  df |-> extract_gpay_transactions_from_pdf(call.text)]
  /\ pc' = "returned"
  /\ UNCHANGED <<folder, logic_sheet_df, fuzz, pdf_files, next_file, transactions,
                 all_transactions, warned, combined_df, expense_df, run, prev_df, call, app>>

SpecExtract == InitExtract /\ [][Extract]_vars

(***************************************************************************)
(* The candidates of the text of the call, span by span, as sections 4.1,  *)
(* 4.2 and 7 of the specification sort them.                               *)
(***************************************************************************)
\* the positions of the dates of the text
DatePositions(text) == {i \in 1..Len(text) : text[i] \in DateTokens}

\* the digits that follow the label of the identifier in the span that starts
\* at i (the span prints an identifier)
SpanId(text, i) ==
  LET k == Min({k \in i..SpanEnd(text, i) : text[k] \in {"UPIID", "UPIIDX"}})
  IN LeadingNumber(Render(IF Tok(text, k + 1) \in BlankTokens
                          THEN Tok(text, k + 2) ELSE Tok(text, k + 1)), FALSE)

\* the span that starts at i is an unparseable candidate: its date is no day
\* of the calendar, it has no type marker, it has no amount, or its
\* counterparty has fewer than 2 characters
UnparseableSpan(text, i) ==
  \/ ParseDate(Render(text[i])) = 0
  \/ SpanMarker(text, i) = "none"
  \/ SpanAmount(text, i) = -1
  \/ Len(SpanCounterparty(text, i)) < 2

\* the span that starts at i is a well-formed candidate that no filter rejects
WellFormedSpan(text, i) ==
  /\ ParseDate(Render(text[i])) # 0
  /\ SpanMarker(text, i) \in {"PAIDTO", "PAIDTOX", "RECV"}
  /\ SpanHasId(text, i)
  /\ SpanAmount(text, i) > 0
  /\ Len(SpanCounterparty(text, i)) >= 2
  /\ ~IsSkipped(SpanCounterparty(text, i))

\* the list transactions holds the candidate of the span that starts at i
ExtractedSpan(text, i) ==
  \E n \in 1..Len(returned.transactions) :
     /\ returned.transactions[n].At.date = i
     /\ returned.transactions[n].Date = ParseDate(Render(text[i]))
     /\ returned.transactions[n].Description = SpanCounterparty(text, i)
     /\ returned.transactions[n].Amount = SpanAmount(text, i)
     /\ returned.transactions[n].TransactionID = SpanId(text, i)

\* C16: an unparseable candidate is dropped and the candidates after it are
\* still read: every well-formed candidate that follows an unparseable one in
\* the text is in the list of extracted transactions, with its own date,
\* counterparty, amount and identifier.
C16_UnparseableDropped ==
  pc = "returned" =>
    \A i, k \in DatePositions(call.text) :
       (i < k /\ UnparseableSpan(call.text, i) /\ WellFormedSpan(call.text, k))
          => ExtractedSpan(call.text, k)

\* C18: every extracted record is built from one span: its type marker, its
\* amount and its identifier are read between its own date and the next date;
\* so a date whose span has no type marker gives no record.
C18_SingleSegment ==
  pc = "returned" =>
    \A n \in 1..Len(returned.transactions) :
       LET at == returned.transactions[n].At
       IN /\ SpanMarker(call.text, at.date) # "none"
          /\ SpanStart(call.text, at.type) = at.date
          /\ SpanStart(call.text, at.amount) = at.date
          /\ SpanStart(call.text, at.id) = at.date

\* the position of the number of the first rupee sign with a number at or
\* after position p of the text, or 0
FirstAmountFrom(text, p) ==
  LET at == {k \in p..Len(text) :
               /\ text[k] = "RS"
               /\ \/ Tok(text, k + 1) \in NumTokens
                  \/ Tok(text, k + 1) \in BlankTokens /\ Tok(text, k + 2) \in NumTokens}
  IN IF at = {} THEN 0
     ELSE IF Tok(text, Min(at) + 1) \in NumTokens THEN Min(at) + 1 ELSE Min(at) + 2

\* the position after the counterparty that follows the type marker at j: the
\* first rupee sign or "UPI" after the marker
CounterpartyEnd(text, j) ==
  Min({k \in (j + 1)..Len(text) : text[k] \in {"RS", "UPI", "UPIID", "UPIIDX"}}
      \cup {Len(text) + 1})

\* C19: the amount of every extracted record is the number of the first rupee
\* sign with a number that follows its counterparty; when the rupee sign ends
\* the counterparty, it is the number after that sign.
C19_FirstAmount ==
  pc = "returned" =>
    \A n \in 1..Len(returned.transactions) :
       LET at == returned.transactions[n].At
       IN at.amount = FirstAmountFrom(call.text, CounterpartyEnd(call.text, at.type))

\* C20: an entry whose type marker and counterparty are run together
\* ("PaidtoSudamaSupane", a rupee amount, "UPITransactionID:" and digits)
\* gives exactly one record of type Sent with the counterparty, the amount
\* and the identifier of that entry.
C20_RunTogether ==
  pc = "returned" =>
    \A i \in DatePositions(call.text) :
       (SpanMarker(call.text, i) = "PAIDTOX" /\ SpanHasId(call.text, i)) =>
          Cardinality({n \in 1..Len(returned.transactions) :
             /\ returned.transactions[n].At.date = i
             /\ returned.transactions[n].Type = "Sent"
             /\ RemoveSpaces(returned.transactions[n].Description)
                  = RemoveSpaces(SpanCounterparty(call.text, i))
             /\ returned.transactions[n].Amount = SpanAmount(call.text, i)
             /\ returned.transactions[n].TransactionID = SpanId(call.text, i)}) = 1

(***************************************************************************)
(* parse_time_to_hour of Dev-Expense-Tracker-app.py (lines 544-569),       *)
(* called on its own on the value of one cell of the time column.          *)
(***************************************************************************)
\* str.upper()
Upper(s) ==
  Listed([k \in 1..Len(s) |->
            IF \E n \in 1..26 : LowerChars[n] = s[k]
            THEN UpperChars[CHOOSE n \in 1..26 : LowerChars[n] = s[k]]
            ELSE s[k]])

\* the character of s at position k, or "" after its end
CharAt(s, k) == IF k \in 1..Len(s) THEN s[k] ELSE ""

\* the cell that pd.isna() holds to be missing
NaN == <<"NaN">>

\* (\d{1,2}): at the start of s: the number of digits of the hour, or 0
HourLength(s) ==
  IF IsDigit(CharAt(s, 1)) /\ IsDigit(CharAt(s, 2)) /\ CharAt(s, 3) = ":" THEN 2
  ELSE IF IsDigit(CharAt(s, 1)) /\ CharAt(s, 2) = ":" THEN 1
  ELSE 0

\* (\d{1,2}):(\d{2}) at the start of s: the position of the last digit of the
\* minutes, or 0
MinutesEnd(s) ==
  LET After(n) ==
        IF n # 0 /\ IsDigit(CharAt(s, n + 2)) /\ IsDigit(CharAt(s, n + 3))
        THEN n + 3 ELSE 0
  IN After(HourLength(s))

\* (?::\d{2})? after position e: the position of the last digit of the seconds
SecondsEnd(s, e) ==
  IF CharAt(s, e + 1) = ":" /\ IsDigit(CharAt(s, e + 2)) /\ IsDigit(CharAt(s, e + 3))
  THEN e + 3 ELSE e

\* \s*(AM|PM) after position e: the marker, or ""
MeridiemAfter(s, e) ==
  LET At(p) ==
        IF CharAt(s, p) = "A" /\ CharAt(s, p + 1) = "M" THEN "AM"
        ELSE IF CharAt(s, p) = "P" /\ CharAt(s, p + 1) = "M" THEN "PM"
        ELSE ""
  IN At(Min({k \in (e + 1)..(Len(s) + 1) : ~IsSpaceChar(CharAt(s, k))}))

\* line 551: group 3 of the match, or "" when there is no match; the seconds
\* are tried first and given up when no marker follows them
AmPmMatch(s) ==
  LET Marker(e) ==
        IF e = 0 THEN ""
        ELSE IF MeridiemAfter(s, SecondsEnd(s, e)) # ""
        THEN MeridiemAfter(s, SecondsEnd(s, e))
        ELSE MeridiemAfter(s, e)
  IN Marker(MinutesEnd(s))

\* lines 544-569 without the exceptions for the hour 12 of lines 556 and 558
parse_time_to_hour_plain(time_val) ==
  LET Hour24(hour) == IF 0 <= hour /\ hour <= 23 THEN hour ELSE 12
      Hour12(hour, am_pm) == IF am_pm = "PM" THEN hour + 12 ELSE hour
      Of(time_str) ==
        IF AmPmMatch(time_str) # ""
        THEN Hour12(DecimalValue(SubSeq(time_str, 1, HourLength(time_str))),
                    AmPmMatch(time_str))
        ELSE IF MinutesEnd(time_str) # 0
        THEN Hour24(DecimalValue(SubSeq(time_str, 1, HourLength(time_str))))
        ELSE 12
  IN IF time_val = NaN THEN 12 ELSE Of(Upper(Strip(time_val)))

\* lines 544-569
parse_time_to_hour(time_val) ==
  LET Hour24(hour) == IF 0 <= hour /\ hour <= 23 THEN hour ELSE 12
      Hour12(hour, am_pm) ==
        IF am_pm = "PM" /\ hour # 12 THEN hour + 12
        ELSE IF am_pm = "AM" /\ hour = 12 THEN 0
        ELSE hour
      Of(time_str) ==
        IF AmPmMatch(time_str) # ""
        THEN Hour12(DecimalValue(SubSeq(time_str, 1, HourLength(time_str))),
                    AmPmMatch(time_str))
        ELSE IF MinutesEnd(time_str) # 0
        THEN Hour24(DecimalValue(SubSeq(time_str, 1, HourLength(time_str))))
        ELSE 12
  IN IF time_val = NaN THEN 12 ELSE Of(Upper(Strip(time_val)))

\* the cells of the model: hours of one and two digits up to 99, minutes, with
\* and without seconds, with and without a marker in either case, after a
\* blank or none; a missing cell, an empty one and a word
HourStrings ==
  {<<d>> : d \in {DigitChars[k] : k \in 1..10}}
    \cup {<<a, b>> : a \in {"0", "1", "2", "9"}, b \in {"0", "2", "3", "4", "9"}}

TimeValues ==
  {h \o <<":">> \o m \o s \o g \o a :
     h \in HourStrings, m \in {<<"0","0">>, <<"5","9">>},
     s \in {<<>>, <<":","3","0">>}, g \in {<<>>, <<" ">>},
     a \in {<<>>, <<"A","M">>, <<"P","M">>, <<"p","m">>}}
    \cup {NaN, <<>>, <<"n","o","o","n">>}

InitHour ==
  /\ NoSync
  /\ logic_sheet_df = <<>>
  /\ fuzz = TRUE
  /\ call \in [time_val : TimeValues]

\* the call parse_time_to_hour(time_val) of line 887
ParseTime ==
  /\ pc = "call"
  /\ returned' = parse_time_to_hour(call.time_val)
  /\ pc' = "returned"
  /\ UNCHANGED <<folder, logic_sheet_df, fuzz, pdf_files, next_file, transactions,
                 all_transactions, warned, combined_df, expense_df, run, prev_df, call, app>>

SpecHour == InitHour /\ [][ParseTime]_vars

\* C17: parse_time_to_hour returns an hour from 0 to 23 for every value of the
\* cell, with or without an AM/PM marker.
C17_HourInRange ==
  pc = "returned" => returned \in 0..23

(***************************************************************************)
(* The bank tag of the extracted records (line 88 and the last group of    *)
(* the pattern of line 50).                                                *)
(***************************************************************************)
\* the bank label that follows "Paid by" or "Paid to" after position u in the
\* span of u, or <<>> when the span prints none there
BankAfter(text, u) ==
  LET e    == SpanEnd(text, SpanStart(text, u))
      paid == {p \in (u + 1)..e : text[p] \in {"PAIDBY", "PAIDTO", "PAIDBYX", "PAIDTOX"}}
      At(p) == IF Tok(text, p + 1) = "Bank" THEN Render("Bank")
               ELSE IF Tok(text, p + 1) \in BlankTokens /\ Tok(text, p + 2) = "Bank"
               THEN Render("Bank")
               ELSE <<>>
  IN IF paid = {} THEN <<>> ELSE At(Min(paid))

\* C21: when the text after the identifier of an extracted record prints
\* "Paid by" or "Paid to" and then a bank name with account digits, the bank
\* tag of the record is that label (with or without a blank before the
\* digits) and not the default "Unknown".
C21_BankTag ==
  pc = "returned" =>
    \A n \in 1..Len(returned.transactions) :
       LET r == returned.transactions[n]
       IN BankAfter(call.text, r.At.id) # <<>>
            => /\ r.Bank # <<"U","n","k","n","o","w","n">>
               /\ RemoveSpaces(r.Bank) = BankAfter(call.text, r.At.id)

\* the ways a cell writes the hour h: two digits, or one when h is below 10
HourTexts(h) ==
  {<<DigitChars[(h \div 10) + 1], DigitChars[(h % 10) + 1]>>}
    \cup (IF h < 10 THEN {<<DigitChars[h + 1]>>} ELSE {})

\* the cells that write the hour h with minutes, with or without seconds, and
\* the marker am_pm ("AM" or "PM") in capital or small letters, after a blank
\* or none
MeridiemTimes(h, am_pm) ==
  {t \o <<":">> \o m \o s \o g \o a :
     t \in HourTexts(h), m \in {<<"0","0">>, <<"5","9">>},
     s \in {<<>>, <<":","3","0">>}, g \in {<<>>, <<" ">>},
     a \in IF am_pm = "AM" THEN {<<"A","M">>, <<"a","m">>}
           ELSE {<<"P","M">>, <<"p","m">>}}

\* C22: for a cell with an AM/PM marker and an hour h from 1 to 12,
\* parse_time_to_hour returns 0 when h is 12 and the marker is AM, h + 12 when
\* the marker is PM and h is not 12, and h in the other cases.
C22_MeridiemConversion ==
  pc = "returned" =>
    \A h \in 1..12 : \A am_pm \in {"AM", "PM"} :
       call.time_val \in MeridiemTimes(h, am_pm) =>
          returned = IF h = 12 /\ am_pm = "AM" THEN 0
                     ELSE IF am_pm = "PM" /\ h # 12 THEN h + 12
                     ELSE h

\* the call returned 12 for a cell that writes noon, "12:..PM"
C22_Witness ==
  /\ pc = "returned"
  /\ call.time_val \in MeridiemTimes(12, "PM")
  /\ returned = 12

(***************************************************************************)
(* The script of OnlyPDF-Dev-Claude.py as Streamlit runs it: every browser *)
(* session has its own st.session_state and runs the script from the top   *)
(* on every interaction; the sessions run in one process and share the     *)
(* working directory, so all of them download into the one directory       *)
(* temp_data.  A run that syncs is cut into the steps that touch that      *)
(* directory: rmtree and mkdir, the download, and the reading of the files.*)
(***************************************************************************)
\* the browser sessions that are open
Sessions == DOMAIN script

\* what a function returns for None
None == "None"

\* the rows of the credentials sheet that load_credentials reads
Credentials ==
  << [UserName |-> "u1", Password |-> "p1", ExcelLink |-> "E1", PdfLink |-> "P1",
      LogicSheet |-> "L1"],
     [UserName |-> "u2", Password |-> "p2", ExcelLink |-> "", PdfLink |-> "P2",
      LogicSheet |-> ""],
     [UserName |-> "u3", Password |-> "p3", ExcelLink |-> "sheet", PdfLink |-> "P3",
      LogicSheet |-> ""] >>

\* what a user types on the login page: the administrator, the three users,
\* and a wrong password
Logins ==
  { [username |-> "admin", password |-> "admin@123"],
    [username |-> "u1", password |-> "p1"],
    [username |-> "u2", password |-> "p2"],
    [username |-> "u3", password |-> "p3"],
    [username |-> "u1", password |-> "p2"] }

\* the links that name a folder of Google Drive
FolderLinks == {"E1", "P1", "P2", "P3"}

\* lines 243-259
extract_folder_id_from_link(link) ==
  IF link = "" THEN None
  ELSE IF link \in FolderLinks THEN link
  ELSE None

\* lines 262-347: the rules table behind a link, empty when the link is
load_logic_sheet(link) ==
  IF link = "L1"
  THEN << [Merchant |-> <<"S","u","d","a","m","a">>, Category |-> "Food",
           Subcategory |-> "Snacks"] >>
  ELSE <<>>

\* a file of a folder of Google Drive
PdfFile(name, text) == [name |-> name, kind |-> "pdf", readable |-> TRUE, text |-> text]
ExcelFile(name, table) == [name |-> name, kind |-> "xlsx", table |-> table]

\* the files gdown may find in a folder when it downloads it: the folder of
\* u3 holds no file at one time and, at another, a statement with nothing but
\* money received
DriveFolder(folder_id) ==
  CASE folder_id = "P1" ->
         { {PdfFile("a.pdf", EntryUpi("D1", "PAIDTO", <<"Sudama">>, "26", "111"))} }
    [] folder_id = "P2" ->
         { {PdfFile("b.pdf", EntryUpi("D2", "PAIDTO", <<"Ravi">>, "5000", "222"))} }
    [] folder_id = "P3" ->
         { {},
           {PdfFile("a.pdf", EntryUpi("D2", "RECV", <<"Ravi">>, "5000", "222"))} }
    [] folder_id = "E1" ->
         { {ExcelFile("e.xlsx", << [Date |-> 20251001, Description |-> <<"T","e","a">>,
                                    Amount |-> 10, Category |-> "Food"] >>)} }

\* no table is rendered
NoTables == [dfs |-> <<>>, At |-> ""]

\* st.session_state[key] = value
Set(ss, key, value) ==
  [k \in DOMAIN ss \cup {key} |-> IF k = key THEN value ELSE ss[k]]

\* lines 157-197 on the files in the order glob listed them
process_pdf_data(pdf_paths, rules, fuzzy) ==
  LET Frames(read) ==
        IF SelectSeq(read, LAMBDA df : df # <<>>) = <<>> THEN <<>>
        ELSE ExpenseFrame(CombinedFrame(SelectSeq(read, LAMBDA df : df # <<>>),
                                        rules, fuzzy))
  IN Frames(Listed([k \in 1..Len(pdf_paths) |->
                      IF pdf_paths[k].readable
                      THEN extract_gpay_transactions_from_pdf(pdf_paths[k].text)
                      ELSE <<>>]))

\* the orders in which glob can list the files of the set files
Listings(files) ==
  {o \in [1..Cardinality(files) -> files] :
     \A a, b \in 1..Cardinality(files) : a # b => o[a] # o[b]}

\* the files of temp_data whose names end as glob asks
GlobKind(kind) == {d.file : d \in {x \in temp_data : x.file.kind = kind}}

\* lines 873-877
Defaults(ss) ==
  LET WithAdmin(a) == IF "is_admin" \in DOMAIN a THEN a ELSE Set(a, "is_admin", FALSE)
  IN WithAdmin(IF "authenticated" \in DOMAIN ss THEN ss
               ELSE Set(ss, "authenticated", FALSE))

\* line 879 without the check
NeedsLoginNever(ss) == FALSE

\* line 879
NeedsLogin(ss) == ~ss["authenticated"]

\* lines 830-862: the session state after a click on Login, and whether
\* st.rerun() was called
login_page(ss, username, password) ==
  LET Granted(user_match) ==
        IF user_match = <<>> THEN [ss |-> ss, rerun |-> FALSE]
        ELSE [ss |-> Set(Set(Set(Set(Set(Set(ss,
                       "authenticated", TRUE),
                       "is_admin", FALSE),
                       "username", username),
                       "excel_drive_link", user_match[1].ExcelLink),
                       "pdf_drive_link", user_match[1].PdfLink),
                       "logic_sheet_link", user_match[1].LogicSheet),
              rerun |-> TRUE]
  IN IF username = "" \/ password = "" THEN [ss |-> ss, rerun |-> FALSE]
     ELSE IF username = "admin" /\ password = "admin@123"
     THEN [ss |-> Set(Set(Set(ss, "authenticated", TRUE), "is_admin", TRUE),
                      "username", "Admin"),
           rerun |-> TRUE]
     ELSE Granted(SelectSeq(Credentials,
                    LAMBDA c : c.UserName = username /\ c.Password = password))

\* lines 1034-1058 with the marks of lines 1056 set before the checks
PdfSyncMarkingFirst(ss, temp_dir, pdf_paths, pdf_df) ==
  IF temp_dir = None
  THEN [ss |-> Set(ss, "pdf_loaded", TRUE), stop |-> "Could not access Google Drive folder"]
  ELSE IF pdf_paths = <<>>
  THEN [ss |-> Set(ss, "pdf_loaded", TRUE), stop |-> "No PDF files found"]
  ELSE IF pdf_df = <<>>
  THEN [ss |-> Set(ss, "pdf_loaded", TRUE), stop |-> "No transactions extracted from PDFs"]
  ELSE [ss |-> Set(Set(ss, "pdf_loaded", TRUE), "pdf_dfs",
                   [dfs |-> <<pdf_df>>, At |-> ss["username"]]),
        stop |-> ""]

\* lines 1034-1058: the session state after the sync, and the message of the
\* st.stop() that ended the run, if one did.  At records for which user the
\* table was cached.
PdfSync(ss, temp_dir, pdf_paths, pdf_df) ==
  IF temp_dir = None
  THEN [ss |-> ss, stop |-> "Could not access Google Drive folder"]
  ELSE IF pdf_paths = <<>>
  THEN [ss |-> ss, stop |-> "No PDF files found"]
  ELSE IF pdf_df = <<>>
  THEN [ss |-> ss, stop |-> "No transactions extracted from PDFs"]
  ELSE [ss |-> Set(Set(ss, "pdf_loaded", TRUE), "pdf_dfs",
                   [dfs |-> <<pdf_df>>, At |-> ss["username"]]),
        stop |-> ""]

\* lines 987-1014
ExcelSync(ss, temp_dir, excel_files, dfs) ==
  IF temp_dir = None
  THEN [ss |-> ss, stop |-> "Could not access Google Drive folder"]
  ELSE IF excel_files = <<>>
  THEN [ss |-> ss, stop |-> "No Excel/CSV files found"]
  ELSE IF dfs = <<>>
  THEN [ss |-> ss, stop |-> ""]
  ELSE [ss |-> Set(Set(ss, "excel_loaded", TRUE), "excel_dfs",
                   [dfs |-> dfs, At |-> ss["username"]]),
        stop |-> ""]

\* the pages on which the button "Sync Now" is rendered
SyncPages ==
  {"dashboard", "Click 'Sync Now' to load data", "Could not access Google Drive folder",
   "No PDF files found", "No transactions extracted from PDFs",
   "No Excel/CSV files found"}

\* the pages that a run renders after the header of line 946
UserPages ==
  SyncPages \cup {"Excel Drive link is missing", "PDF Drive link is missing",
                  "Invalid Google Drive link"}

\* the end of a run of session s: its session state, where the script is,
\* the radio of line 964, the sync that is under way, and what is rendered
End(s, ss, at, data_mode, task, folder_id, page, dfs) ==
  /\ session_state' = [session_state EXCEPT ![s] = ss]
  /\ script' = [script EXCEPT ![s] =
                  [pc |-> at, data_mode |-> data_mode, task |-> task,
                   folder_id |-> folder_id, page |-> page, dfs |-> dfs]]

\* lines 1016-1017 and 1060-1067: the cached tables of the mode, and the
\* dashboard or the message of line 1064
Dashboard(s, ss, data_mode) ==
  LET key == IF data_mode = "excel" THEN "excel_dfs" ELSE "pdf_dfs"
  IN IF key \in DOMAIN ss
     THEN End(s, ss, "idle", data_mode, "none", None, "dashboard", ss[key])
     ELSE End(s, ss, "idle", data_mode, "none", None, "Click 'Sync Now' to load data", NoTables)

\* lines 873-1067 up to the first call of download_from_gdrive_folder: one run
\* of the script of session s, with the widget the user touched
RunScript(s, event) ==
  LET ss == Defaults(session_state[s])
      data_mode == IF event.widget = "radio" THEN event.data_mode
                   ELSE IF script[s].page \in UserPages THEN script[s].data_mode
                   ELSE "excel"
      Mode(link, loaded, task) ==
        IF link = ""
        THEN End(s, ss, "idle", data_mode, "none", None,
                 IF task = "excel" THEN "Excel Drive link is missing"
                 ELSE "PDF Drive link is missing", NoTables)
        ELSE IF extract_folder_id_from_link(link) = None
        THEN End(s, ss, "idle", data_mode, "none", None, "Invalid Google Drive link", NoTables)
        ELSE IF event.widget = "sync" \/ loaded \notin DOMAIN ss
        THEN End(s, ss, "download", data_mode, task, extract_folder_id_from_link(link),
                 "none", NoTables)
        ELSE Dashboard(s, ss, data_mode)
      AfterLogin(r) ==
        IF r.rerun THEN End(s, r.ss, "rerun", "excel", "none", None, "none", NoTables)
        ELSE End(s, r.ss, "idle", "excel", "none", None, "login", NoTables)
  IN /\ UNCHANGED temp_data
     /\ IF NeedsLogin(ss)
        THEN IF event.widget = "login"
             THEN AfterLogin(login_page(ss, event.username, event.password))
             ELSE End(s, ss, "idle", "excel", "none", None, "login", NoTables)
        ELSE IF Get(ss, "is_admin", FALSE)
        THEN IF event.widget = "logout"
             THEN End(s, Set(Set(ss, "authenticated", FALSE), "is_admin", FALSE),
                      "rerun", "excel", "none", None, "none", NoTables)
             ELSE IF event.widget = "test"
             THEN End(s, ss, "download", "excel", "test", event.folder_id, "none", NoTables)
             ELSE End(s, ss, "idle", "excel", "none", None, "admin", NoTables)
        ELSE IF event.widget = "logout"
        THEN End(s, Set(ss, "authenticated", FALSE), "rerun", "excel", "none", None,
                 "none", NoTables)
        ELSE IF data_mode = "excel"
        THEN Mode(Get(ss, "excel_drive_link", ""), "excel_loaded", "excel")
        ELSE Mode(Get(ss, "pdf_drive_link", ""), "pdf_loaded", "pdf")

\* the sessions and the variables a session leaves alone
NoCall ==
  UNCHANGED <<folder, logic_sheet_df, fuzz, pc, pdf_files, next_file, transactions,
              all_transactions, warned, combined_df, expense_df, run, prev_df,
              call, returned>>

\* the browser runs the script for the first time, st.rerun() runs it again,
\* or the user touches a widget that the model does not follow
Rerun ==
  \E s \in Sessions :
    /\ script[s].pc \in {"rerun", "idle"}
    /\ RunScript(s, [widget |-> "none"])
    /\ NoCall

\* a click on the button Login of line 827
Login ==
  \E s \in Sessions :
    /\ script[s].pc = "idle"
    /\ script[s].page = "login"
    /\ \E l \in Logins :
          RunScript(s, [widget |-> "login", username |-> l.username,
                        password |-> l.password])
    /\ NoCall

\* a click on the button Logout of line 468 or of line 952
Logout ==
  \E s \in Sessions :
    /\ script[s].pc = "idle"
    /\ script[s].page \in UserPages \cup {"admin"}
    /\ RunScript(s, [widget |-> "logout"])
    /\ NoCall

\* a click on the radio of line 964
SelectMode ==
  \E s \in Sessions :
    /\ script[s].pc = "idle"
    /\ script[s].page \in UserPages
    /\ \E m \in {"excel", "pdf"} : RunScript(s, [widget |-> "radio", data_mode |-> m])
    /\ NoCall

\* a click on the button Sync Now of line 987 or of line 1034
SyncNow ==
  \E s \in Sessions :
    /\ script[s].pc = "idle"
    /\ script[s].page \in SyncPages
    /\ RunScript(s, [widget |-> "sync"])
    /\ NoCall

\* a click on a button Test Folder Access of the panel (lines 578 and 609),
\* for the user the administrator selected
TestFolder ==
  \E s \in Sessions :
    /\ script[s].pc = "idle"
    /\ script[s].page = "admin"
    /\ \E c \in 1..Len(Credentials) : \E link \in {Credentials[c].ExcelLink, Credentials[c].PdfLink} :
          /\ link # ""
          /\ extract_folder_id_from_link(link) # None
          /\ RunScript(s, [widget |-> "test", folder_id |-> extract_folder_id_from_link(link)])
    /\ NoCall

\* lines 228-233 of download_from_gdrive_folder: rmtree and mkdir
RemoveTree ==
  \E s \in Sessions :
    /\ script[s].pc = "download"
    /\ temp_data' = {}
    /\ script' = [script EXCEPT ![s].pc = "gdown"]
    /\ UNCHANGED session_state
    /\ NoCall

\* the page a run ends on when a sync did not stop it
AfterSync(s, outcome, data_mode) ==
  IF outcome.stop # ""
  THEN End(s, outcome.ss, "idle", data_mode, "none", None, outcome.stop, NoTables)
  ELSE Dashboard(s, outcome.ss, data_mode)

\* lines 236-240 of download_from_gdrive_folder: gdown writes the files of the
\* folder into temp_data, over the files of the same names, or raises
Download ==
  \E s \in Sessions :
    /\ script[s].pc = "gdown"
    /\ \/ /\ \E files \in DriveFolder(script[s].folder_id) :
               temp_data' =
                 {d \in temp_data : \A f \in files : f.name # d.file.name}
                   \cup {[by |-> s, file |-> f] : f \in files}
          /\ script' = [script EXCEPT ![s].pc = "read"]
          /\ UNCHANGED session_state
       \/ /\ UNCHANGED temp_data
          /\ IF script[s].task = "test"
             THEN End(s, session_state[s], "idle", "excel", "none", None, "admin", NoTables)
             ELSE IF script[s].task = "excel"
             THEN AfterSync(s, ExcelSync(session_state[s], None, <<>>, <<>>), "excel")
             ELSE AfterSync(s, PdfSync(session_state[s], None, <<>>, <<>>), "pdf")
    /\ NoCall

\* the rest of the run once the folder is downloaded: lines 1042-1067 in PDF
\* mode, lines 995-1017 and 1063-1067 in Excel mode, lines 581-586 in the panel
ReadFolder ==
  \E s \in Sessions :
    /\ script[s].pc = "read"
    /\ IF script[s].task = "test"
       THEN /\ temp_data' = {}
            /\ End(s, session_state[s], "idle", "excel", "none", None, "admin", NoTables)
       ELSE IF script[s].task = "excel"
       THEN /\ UNCHANGED temp_data
            /\ \E excel_files \in Listings(GlobKind("xlsx")) :
                  AfterSync(s, ExcelSync(session_state[s], "temp_data", excel_files,
                                         Listed([k \in 1..Len(excel_files) |-> excel_files[k].table])),
                            "excel")
       ELSE /\ UNCHANGED temp_data
            /\ \E pdf_paths \in Listings(GlobKind("pdf")) :
                  AfterSync(s, PdfSync(session_state[s], "temp_data", pdf_paths,
                              process_pdf_data(pdf_paths,
                                load_logic_sheet(Get(session_state[s], "logic_sheet_link", "")),
                                fuzz)),
                            "pdf")
    /\ NoCall

InitSession ==
  /\ folder = <<>>
  /\ logic_sheet_df = <<>>
  /\ fuzz = TRUE
  /\ pc = "sessions"
  /\ pdf_files = <<>>
  /\ next_file = 1
  /\ transactions = <<>>
  /\ all_transactions = <<>>
  /\ warned = {}
  /\ combined_df = <<>>
  /\ expense_df = <<>>
  /\ run = 1
  /\ prev_df = <<>>
  /\ call = <<>>
  /\ returned = <<>>
  /\ session_state = [s \in {1} |-> <<>>]
  /\ script = [s \in {1} |->
                 [pc |-> "rerun", data_mode |-> "excel", task |-> "none",
                  folder_id |-> None, page |-> "none", dfs |-> NoTables]]
  /\ temp_data = {}

NextSession ==
  Rerun \/ Login \/ Logout \/ SelectMode \/ SyncNow \/ TestFolder
    \/ RemoveTree \/ Download \/ ReadFolder

SpecSession == InitSession /\ [][NextSession]_vars

\* C23: the tables a dashboard renders were synced and cached for the user who
\* is logged in: after a logout and the login of another user in the same
\* browser session, no run renders the tables cached for the user before.
C23_NoStaleData ==
  \A s \in Sessions :
     script[s].page = "dashboard" => script[s].dfs.At = session_state[s]["username"]

(***************************************************************************)
(* Two browser sessions at once.  Each starts where the script leaves a    *)
(* user without a folder of spreadsheets after the login: logged in, on    *)
(* the message of Excel mode, nothing cached.  The users stay logged in.   *)
(***************************************************************************)
\* the session state and the page of the run that follows the login of the
\* user of row c of the credentials sheet, who has no folder of spreadsheets
LoggedIn(c) ==
  [ss |-> login_page(Defaults(<<>>), Credentials[c].UserName, Credentials[c].Password).ss,
   page |-> IF Credentials[c].ExcelLink = "" THEN "Excel Drive link is missing"
            ELSE "Invalid Google Drive link"]

InitConcurrent ==
  /\ folder = <<>>
  /\ logic_sheet_df = <<>>
  /\ fuzz = TRUE
  /\ pc = "sessions"
  /\ pdf_files = <<>>
  /\ next_file = 1
  /\ transactions = <<>>
  /\ all_transactions = <<>>
  /\ warned = {}
  /\ combined_df = <<>>
  /\ expense_df = <<>>
  /\ run = 1
  /\ prev_df = <<>>
  /\ call = <<>>
  /\ returned = <<>>
  /\ \E users \in [{1, 2} -> {2, 3}] :
        /\ session_state = [s \in {1, 2} |-> LoggedIn(users[s]).ss]
        /\ script = [s \in {1, 2} |->
                       [pc |-> "idle", data_mode |-> "excel", task |-> "none",
                        folder_id |-> None, page |-> LoggedIn(users[s]).page,
                        dfs |-> NoTables]]
  /\ temp_data = {}

NextConcurrent ==
  Rerun \/ SelectMode \/ SyncNow \/ RemoveTree \/ Download \/ ReadFolder

SpecConcurrent == InitConcurrent /\ [][NextConcurrent]_vars

\* C24: syncs of different sessions do not interfere: while a sync has
\* downloaded its files and has not yet read them, no step deletes or
\* replaces a file it downloaded.
C24_NoInterference ==
  [][\A s \in Sessions :
       script[s].pc = "read" =>
          \A d \in temp_data : d.by = s => d \in temp_data']_vars

\* a sync or a folder test of session s is under way
Loading(s) == script[s].pc \in {"download", "gdown", "read"}

\* C25: the dashboard and every step that loads data are reached only by a
\* session whose session_state['authenticated'] is True; a session of the
\* administrator (is_admin True) is on the diagnostic panel and never on a
\* page of the user dashboard nor in a sync; and a session that is not
\* authenticated, as after a logout, has the login page as the only page its
\* next run renders.
C25_AuthGate ==
  \A s \in Sessions :
     LET ss == Defaults(session_state[s])
     IN /\ (script[s].page \in UserPages \cup {"admin"} \/ Loading(s))
             => ss["authenticated"]
        /\ ss["is_admin"]
             => /\ script[s].page \in {"admin", "none"}
                /\ script[s].task \in {"none", "test"}
        /\ ~ss["authenticated"]
             => \/ script[s].pc = "rerun" /\ script[s].page = "none"
                \/ script[s].pc = "idle" /\ script[s].page = "login"

\* a user who had synced the statements logged out, and the next run rendered
\* the login page
C25_Witness ==
  \E s \in Sessions :
     /\ "pdf_dfs" \in DOMAIN session_state[s]
     /\ ~session_state[s]["authenticated"]
     /\ script[s].pc = "idle"
     /\ script[s].page = "login"

\* the messages of the st.stop() calls that end a failed sync of PDF mode
\* (lines 1039, 1045 and 1052)
FailedSyncPages ==
  {"Could not access Google Drive folder", "No PDF files found",
   "No transactions extracted from PDFs"}

\* session_state['pdf_loaded'] and session_state['pdf_dfs'], where they are set
PdfCache(ss) == [k \in DOMAIN ss \cap {"pdf_loaded", "pdf_dfs"} |-> ss[k]]

\* C26: a failed sync of PDF mode leaves the cache as it was before the sync:
\* no step of a sync that does not end on the dashboard changes
\* session_state['pdf_loaded'] or session_state['pdf_dfs'], and the step in
\* which the sync fails ends the run on the message of the failure.
C26_FailedSyncKeepsCache ==
  [][\A s \in Sessions :
       (Loading(s) /\ script[s].task = "pdf" /\ script'[s].page # "dashboard")
          => /\ PdfCache(session_state'[s]) = PdfCache(session_state[s])
             /\ script'[s].pc = "idle"
                  => script'[s].page \in FailedSyncPages]_vars

\* a sync of PDF mode failed because no transaction was extracted, in a
\* session that holds a table cached by a sync before
C26_Witness ==
  \E s \in Sessions :
     /\ script[s].page = "No transactions extracted from PDFs"
     /\ "pdf_loaded" \in DOMAIN session_state[s]
     /\ session_state[s]["pdf_dfs"].dfs # <<>>

\* C27: the table process_pdf_data returns holds only Sent transactions:
\* every row of it is a row of the combined frame whose type is Sent, read
\* after a marker other than "Received from"; and no row of the combined frame
\* whose type is Received, tagged (Income, Received) there, is in it.
C27_OnlySent ==
  pc = "done" =>
    /\ \A r \in RowsOf(expense_df) :
          /\ \E c \in RowsOf(combined_df) : c.At = r.At /\ c.Type = "Sent"
          /\ folder[r.At.file].text[r.At.type] # "RECV"
          /\ "Type" \notin DOMAIN r
    /\ \A c \in RowsOf(combined_df) :
          c.Type = "Received" =>
             /\ c.Category = "Income"
             /\ \A r \in RowsOf(expense_df) : r.At # c.At

\* a run has ended whose combined frame holds a Received record and a Sent
\* record, and the returned table is not empty
C27_Witness ==
  /\ pc = "done"
  /\ \E c \in RowsOf(combined_df) : c.Type = "Received"
  /\ \E c \in RowsOf(combined_df) : c.Type = "Sent"
  /\ expense_df # <<>>

\* the candidates of the text of the call: the matches of the pattern
Candidates == RowsOf(FindAll(call.text))

\* the counterparty of the candidate m, as lines 74-76 clean it
CandidateCounterparty(m) ==
  CleanDescription(RenderSpan(call.text, m.descFrom, m.descTo))

\* the counterparty of m contains "self transfer", whatever the case of its
\* letters and the spaces in it
NamesSelfTransfer(m) ==
  Contains(RemoveSpaces(Lower(CandidateCounterparty(m))),
           <<"s","e","l","f","t","r","a","n","s","f","e","r">>)

\* no other check of lines 62-83 rejects the candidate m
PassesOtherChecks(m) ==
  /\ ParseDate(Render(call.text[m.date])) # 0
  /\ ParseAmount(LeadingNumber(Render(call.text[m.amount]), TRUE)) > 0
  /\ Len(CandidateCounterparty(m)) >= 2
  /\ ~IsSkipped(CandidateCounterparty(m))

\* the list transactions holds the record of the candidate m
Accepted(m) ==
  \E n \in 1..Len(returned.transactions) :
     /\ returned.transactions[n].At.date = m.date
     /\ returned.transactions[n].At.id = m.id

EmptyMerchant(rule) ==
  \/ Strip(Get(rule, "Merchant", <<>>)) = <<>>
  \/ Get(rule, "Merchant", <<>>) = <<"n","a","n">>

\* the rules of the table that name a merchant
NamedRules(rules) == {k \in 1..Len(rules) : ~EmptyMerchant(rules[k])}

\* the best score of the rules that name a merchant
BestNamedScore(description, rules) ==
  Max({0} \cup {ScoreOf(description, rules, k) : k \in NamedRules(rules)})

\* the earliest rule of the table that names a merchant and has that score
FirstBestNamedRule(description, rules) ==
  Min({k \in NamedRules(rules) :
         ScoreOf(description, rules, k) = BestNamedScore(description, rules)})

\* C29: with fuzzywuzzy imported and a rules table, the rule that decides a
\* call is the earliest rule of the table with the highest score among the
\* rules whose Merchant cell is not empty; a rule whose Merchant cell is empty
\* decides no call, so when no rule with a merchant scores 70 the fallback
\* heuristics decide.
C29_TieBreak ==
  (pc = "returned" /\ fuzz /\ logic_sheet_df # <<>>) =>
     returned =
       IF BestNamedScore(call.description, logic_sheet_df) >= 70
       THEN RuleCategory(logic_sheet_df, FirstBestNamedRule(call.description, logic_sheet_df))
       ELSE FallbackCategory(call.description, call.amount)

\* C30: when fuzzywuzzy is not imported (fuzz is None), categorize_transaction
\* returns what the fallback heuristics return for the description and the
\* amount, whatever the rules table holds: the same as under the empty table.
C30_FallbackWithoutFuzz ==
  (pc = "returned" /\ ~fuzz) =>
     /\ returned = FallbackCategory(call.description, call.amount)
     /\ returned = categorize_transaction(call.description, call.amount, <<>>, TRUE)

\* a call returned without fuzzywuzzy under a rules table with a rule that
\* scores 70 or more for the counterparty and names another category
C30_Witness ==
  /\ pc = "returned"
  /\ ~fuzz
  /\ logic_sheet_df # <<>>
  /\ BestScore(call.description, logic_sheet_df) >= 70
  /\ RuleCategory(logic_sheet_df, BestRule(call.description, logic_sheet_df)) # returned

====
